---- MODULE Spec2Model ----
(***************************************************************************)
(* Model of the NonAdminBackup reconciler                                  *)
(* (internal/controller/nonadminbackup_controller.go).                     *)
(*                                                                         *)
(* One tenant NonAdminBackup object (the workqueue serialises passes per   *)
(* key) is reconciled against the operator namespace, which it shares with *)
(* the backup engine and with other writers.  The API server holds the     *)
(* persisted object (nabObj); a pass works on its own copy (nab), read at  *)
(* the start of the pass, and every step function is one action.  Between  *)
(* steps the tenant, the backup engine and other writers may act.          *)
(***************************************************************************)
EXTENDS Naturals, Sequences, FiniteSets

\* ------------------------------------------------------------- bounds
\* The writes of the tenant and of other writers to the operator namespace
\* that one behaviour holds.
MaxEnvironmentSteps == 2

\* Writes of the tenant and of others after the state a specification that
\* starts from a later state begins in.
MaxFollowUpWrites == 1

\* The PodVolumeBackups, or DataUploads, one list holds at most in the
\* specification that tallies lists.
MaxListedItems == 2

\* ---------------------------------------------------------- constants
EmptyString == ""
NabNamespace == "ns1"
OtherNamespace == "ns2"
OADPNamespace == "oadp"
NabName == "db"
NabUID == "uid-db"
GeneratedUUID == "u1"
SyncUUID == "u2"
UUIDs == {GeneratedUUID, SyncUUID}
NoLabel == "<absent>"
ExternalBackupNames == {"x1", "x2", "x3"}
RequestSuffixes == {"-r1", "-r2", "-r3", "-r4", "-r5"}

PhaseNew == "New"
PhaseBackingOff == "BackingOff"
PhaseCreated == "Created"
PhaseDeleting == "Deleting"

alwaysExcludedNamespacedResources == <<"nonadminbackups", "nonadminrestores", "nonadminbackupstoragelocations">>
alwaysExcludedClusterResources == <<"securitycontextconstraints", "clusterroles", "clusterrolebindings", "priorityclasses", "customresourcedefinitions", "virtualmachineclusterinstancetypes", "virtualmachineclusterpreferences">>

\* ------------------------------------------------------------ BackupSpec
\* The fields of velerov1.BackupSpec the controller reads or writes by name,
\* plus TTL as the representative of the fields it only merges.
ZeroSpec ==
  [ includedNamespaces |-> <<>>,
    ttl |-> 0,
    storageLocation |-> EmptyString,
    excludedResources |-> <<>>,
    includedClusterScopedResources |-> <<>>,
    excludedClusterScopedResources |-> <<>>,
    includedNamespaceScopedResources |-> <<>>,
    excludedNamespaceScopedResources |-> <<>> ]

\* The NonAdminBackupStorageLocations of the tenant namespace, each with the
\* name of the engine storage location it was promoted to.
NonAdminBsls == [ x \in {"bsl"} |-> "velero-bsl" ]

\* The specs a tenant writes: an empty one, one with fields set and one that
\* names a namespace of another tenant.
TenantSpecs ==
  { ZeroSpec,
    [ZeroSpec EXCEPT !.ttl = 1, !.includedNamespaces = <<NabNamespace>>, !.storageLocation = "bsl"],
    [ZeroSpec EXCEPT !.includedNamespaces = <<OtherNamespace>>] }

\* The admin-enforced spec, loaded once at startup.
EnforcedSpec == [ZeroSpec EXCEPT !.ttl = 3, !.includedNamespaces = <<OtherNamespace>>]

\* ------------------------------------------------------------ conditions
NoCondition == [status |-> "", reason |-> "", message |-> ""]
Condition(s, r, m) == [status |-> s, reason |-> r, message |-> m]
NoConditions == [Accepted |-> NoCondition, Queued |-> NoCondition, Deleting |-> NoCondition]

Counters(t, n, i, f, c) == [total |-> t, new |-> n, inProgress |-> i, failed |-> f, completed |-> c]
ZeroCounters == Counters(0, 0, 0, 0, 0)
ZeroUploadCounters ==
  [ total |-> 0, new |-> 0, accepted |-> 0, prepared |-> 0, inProgress |-> 0,
    canceling |-> 0, canceled |-> 0, failed |-> 0, completed |-> 0 ]

NilVeleroBackup == [nacUUID |-> EmptyString, namespace |-> EmptyString, name |-> EmptyString,
                    spec |-> ZeroSpec, status |-> EmptyString]
NilDeleteBackupRequest == [nacUUID |-> EmptyString, namespace |-> EmptyString, name |-> EmptyString,
                           status |-> EmptyString]

ZeroStatus ==
  [ phase |-> EmptyString,
    conditions |-> NoConditions,
    veleroBackup |-> NilVeleroBackup,
    veleroDeleteBackupRequest |-> NilDeleteBackupRequest,
    queueInfo |-> 0,
    fileSystemPodVolumeBackups |-> ZeroCounters,
    dataMoverDataUploads |-> ZeroUploadCounters ]

\* The tenant object as a tenant creates it.
NewNab(spec, label) ==
  [ exists |-> TRUE,
    namespace |-> NabNamespace,
    name |-> NabName,
    deleteBackup |-> FALSE,
    backupSpec |-> spec,
    syncLabel |-> label,
    deletionTimestamp |-> FALSE,
    finalizer |-> FALSE,
    status |-> ZeroStatus ]

\* The controller holds no copy of the object outside a pass.
NoNab == [NewNab(ZeroSpec, NoLabel) EXCEPT !.exists = FALSE]

VARIABLES
  nabObj,        \* the NonAdminBackup as the API server stores it
  nab,           \* the copy the running pass works on
  fresh,         \* nab carries the stored object's resourceVersion
  enforced,      \* r.EnforcedBackupSpec
  backups,       \* engine Backups of the operator namespace, oldest first
  requests,      \* engine DeleteBackupRequests of the operator namespace
  restores,      \* NonAdminRestores of the tenant namespace naming this backup
  children,      \* PodVolumeBackup and DataUpload phases, by backup name label
  path,          \* the path the current (or last) pass selected
  pc,            \* 0: no pass running; else the index of the next step
  result,        \* how the last pass ended
  calls,         \* the write calls of the current (or last) pass, in order
  budget         \* the environment steps left

vars == <<nabObj, nab, fresh, enforced, backups, requests, restores, children,
          path, pc, result, calls, budget>>
engineVars == <<backups, requests, restores, children>>
passVars == <<path, pc, result, calls>>

\* ------------------------------------------------------ engine objects
\* function.GetNonAdminLabels: the marker labels of a non-admin object.
GetNonAdminLabels == [managed |-> TRUE]

\* function.GetNonAdminBackupAnnotations: the origin of an engine object.
GetNonAdminBackupAnnotations(objectMeta) ==
  [ originNamespace |-> objectMeta.namespace,
    originName |-> objectMeta.name,
    originUID |-> NabUID ]

\* An engine Backup: metadata, spec, status.phase and, as history, whether
\* this controller created it.
VeleroBackup(name, uuid, labels, annotations, spec, byController) ==
  [ name |-> name,
    namespace |-> OADPNamespace,
    nacUUID |-> uuid,
    managed |-> labels.managed,
    originNamespace |-> annotations.originNamespace,
    originName |-> annotations.originName,
    originUID |-> annotations.originUID,
    spec |-> spec,
    phase |-> EmptyString,
    byController |-> byController ]

NoAnnotations == [originNamespace |-> EmptyString, originName |-> EmptyString, originUID |-> EmptyString]

NilBackup == [VeleroBackup(EmptyString, EmptyString, [managed |-> FALSE], NoAnnotations, ZeroSpec, FALSE)
                EXCEPT !.namespace = EmptyString]

\* An engine DeleteBackupRequest.
DeleteBackupRequest(name, backupName, uuid, byController) ==
  [ name |-> name,
    backupName |-> backupName,
    nacUUID |-> uuid,
    phase |-> EmptyString,
    byController |-> byController ]

NilRequest == DeleteBackupRequest(EmptyString, EmptyString, EmptyString, FALSE)

BackupNames == { backups[i].name : i \in DOMAIN backups }
RequestNames == { r.name : r \in requests }

\* ----------------------------------------------------- pure helpers
\* function.CheckLabelAnnotationValueIsValid: the label is present and its
\* value is a non-empty label value.
CheckLabelAnnotationValueIsValid(label) == label /= NoLabel /\ label /= EmptyString

\* function.GenerateNacObjectUUID: a random UUID.
GenerateNacObjectUUID(namespace, name) == GeneratedUUID

\* function.GetVeleroBackupByLabel: 0 matches -> (nil, nil); 1 -> (object,
\* nil); more -> error.
GetVeleroBackupByLabel(uuid) ==
  LET found == SelectSeq(backups, LAMBDA b : b.nacUUID = uuid)
  IN  [ err |-> Len(found) > 1,
        isNil |-> Len(found) /= 1,
        obj |-> IF Len(found) = 1 THEN found[1] ELSE NilBackup ]

\* function.GetVeleroDeleteBackupRequestByLabel: the same over requests.
GetVeleroDeleteBackupRequestByLabel(uuid) ==
  LET found == { r \in requests : r.nacUUID = uuid }
  IN  [ err |-> Cardinality(found) > 1,
        isNil |-> Cardinality(found) /= 1,
        obj |-> IF Cardinality(found) = 1 THEN CHOOSE r \in found : TRUE ELSE NilRequest ]

\* function.ValidateBackupSpec: "" when the spec is accepted, else the error.
ValidateBackupSpec(n, enforcedSpec) ==
  IF \E i \in DOMAIN n.backupSpec.includedNamespaces :
       n.backupSpec.includedNamespaces[i] /= n.namespace
    THEN "NonAdminBackup spec.backupSpec.includedNamespaces can not contain namespaces other than own"
  ELSE IF n.backupSpec.storageLocation /= EmptyString
          /\ n.backupSpec.storageLocation \notin DOMAIN NonAdminBsls
    THEN "NonAdminBackupStorageLocation not found in the namespace"
  ELSE ""

\* Backup phases the engine no longer works on.
TerminalBackupPhases == {"Completed"}

\* function.GetBackupQueueInfo: the estimated queue position of a Backup
\* among the Backups bk of the operator namespace: one more than the
\* Backups created before it that the engine has not finished.
GetBackupQueueInfo(bk, veleroBackup) ==
  LET earlier == { i \in DOMAIN bk : \E j \in DOMAIN bk : i < j /\ bk[j].name = veleroBackup.name }
      ahead == { i \in earlier : bk[i].phase \notin TerminalBackupPhases }
  IN  Cardinality(ahead) + 1

\* label.GetValidName: a name of at most 63 characters is its own label
\* value; a longer one is cut and hashed.
GetValidName(name) == IF Len(name) <= 63 THEN name ELSE "<sanitized>"

\* updateNonAdminPhase: the phase after the call; it reports a change
\* exactly when the phase differs.
updateNonAdminPhase(phase, newPhase) == [phase |-> newPhase, updated |-> phase /= newPhase]

\* meta.SetStatusCondition: the conditions after the call, and whether the
\* call changed status, reason or message of the condition.
SetStatusCondition(conditions, type, cond) ==
  [ conditions |-> [conditions EXCEPT ![type] = cond],
    updated |-> conditions[type] /= cond ]

\* meta.IsStatusConditionTrue
IsStatusConditionTrue(conditions, type) == conditions[type].status = "True"

\* ------------------------------------------------------- API server
\* The object is removed once it is marked for deletion and carries no
\* finalizer.
Collect(obj) == IF obj.deletionTimestamp /\ ~obj.finalizer THEN NoNab ELSE obj

\* client.Status().Update: only the status of the sent object is stored.
ApplyStatusUpdate(obj, n) == [obj EXCEPT !.status = n.status]

\* client.Update: metadata and spec of the sent object are stored, its
\* status is ignored.
ApplyUpdate(obj, n) == Collect([obj EXCEPT !.finalizer = n.finalizer])

\* client.Delete on the tenant object: stamps the deletionTimestamp.
ApplyDelete(obj) == Collect([obj EXCEPT !.deletionTimestamp = TRUE])

\* Update and Status().Update are refused for a missing object (NotFound)
\* and for a stale resourceVersion (Conflict).
Writable == nabObj.exists /\ fresh

RemoveBackup(bk, name) == SelectSeq(bk, LAMBDA b : b.name /= name)

\* ------------------------------------------------------------- a pass
\* The switch of lines 117-158 with its first two cases in the other order.
SelectPath_DeletionTimestampFirst(n) ==
  IF n.deletionTimestamp THEN "direct"
  ELSE IF n.deleteBackup THEN "delete"
  ELSE IF CheckLabelAnnotationValueIsValid(n.syncLabel) THEN "sync"
  ELSE "create"

\* Reconcile, lines 113-158: the path, by precedence.
SelectPath(n) ==
  IF n.deleteBackup THEN "delete"
  ELSE IF n.deletionTimestamp THEN "direct"
  ELSE IF CheckLabelAnnotationValueIsValid(n.syncLabel) THEN "sync"
  ELSE "create"

\* The step lists of lines 121-157 with the last two steps of the
\* direct-delete path in the other order.
reconcileSteps_BackupBeforeRequest(p) ==
  CASE p = "delete" -> <<"setStatusAndConditionForDeletionAndCallDelete",
                         "deleteNonAdminRestores",
                         "createVeleroDeleteBackupRequest">>
    [] p = "direct" -> <<"setStatusForDirectKubernetesAPIDeletion",
                         "deleteVeleroBackupObjects",
                         "deleteDeleteBackupRequestObjects">>
    [] p = "sync"   -> <<"setBackupUUIDInStatus",
                         "setFinalizerOnNonAdminBackup",
                         "createVeleroBackupAndSyncWithNonAdminBackup">>
    [] p = "create" -> <<"initNabCreate",
                         "validateSpec",
                         "setBackupUUIDInStatus",
                         "setFinalizerOnNonAdminBackup",
                         "createVeleroBackupAndSyncWithNonAdminBackup">>
    [] OTHER -> <<>>

\* The step lists of lines 121-157 with the graceful-delete path lacking its
\* first step: nothing calls Delete on the tenant object before the cleanup.
reconcileSteps_DeleteNotCalled(p) ==
  CASE p = "delete" -> <<"deleteNonAdminRestores",
                         "createVeleroDeleteBackupRequest">>
    [] p = "direct" -> <<"setStatusForDirectKubernetesAPIDeletion",
                         "deleteDeleteBackupRequestObjects",
                         "deleteVeleroBackupObjects">>
    [] p = "sync"   -> <<"setBackupUUIDInStatus",
                         "setFinalizerOnNonAdminBackup",
                         "createVeleroBackupAndSyncWithNonAdminBackup">>
    [] p = "create" -> <<"initNabCreate",
                         "validateSpec",
                         "setBackupUUIDInStatus",
                         "setFinalizerOnNonAdminBackup",
                         "createVeleroBackupAndSyncWithNonAdminBackup">>
    [] OTHER -> <<>>

reconcileSteps(p) ==
  CASE p = "delete" -> <<"setStatusAndConditionForDeletionAndCallDelete",
                         "deleteNonAdminRestores",
                         "createVeleroDeleteBackupRequest">>
    [] p = "direct" -> <<"setStatusForDirectKubernetesAPIDeletion",
                         "deleteDeleteBackupRequestObjects",
                         "deleteVeleroBackupObjects">>
    [] p = "sync"   -> <<"setBackupUUIDInStatus",
                         "setFinalizerOnNonAdminBackup",
                         "createVeleroBackupAndSyncWithNonAdminBackup">>
    [] p = "create" -> <<"initNabCreate",
                         "validateSpec",
                         "setBackupUUIDInStatus",
                         "setFinalizerOnNonAdminBackup",
                         "createVeleroBackupAndSyncWithNonAdminBackup">>
    [] OTHER -> <<>>

\* What a step function leaves behind: its return value (outcome: continue,
\* requeue, error, terminal), the copy it worked on, the stored objects and
\* the write calls it made.
Out(outcome, n, obj, bk, rq, rs, cs) ==
  [ outcome |-> outcome, nab |-> n, nabObj |-> obj, backups |-> bk,
    requests |-> rq, restores |-> rs, calls |-> cs, refetched |-> FALSE ]

\* A step that returns without a write.
Return(outcome, n) == Out(outcome, n, nabObj, backups, requests, restores, <<>>)

\* Status().Update of copy n, then `next` (the outcomes of the rest of the
\* step, given the new copy and the stored object); the call may fail.
StatusUpdateThen(n, next(_, _)) ==
  { Out("error", n, nabObj, backups, requests, restores, <<"StatusUpdate">>) }
  \cup (IF Writable
          THEN { [o EXCEPT !.calls = <<"StatusUpdate">> \o o.calls] :
                   o \in next(n, ApplyStatusUpdate(nabObj, n)) }
          ELSE {})

Continue(n, obj) == { Out("continue", n, obj, backups, requests, restores, <<>>) }

\* The loop of lines 161-168 without the test of line 165: a step that asks
\* for a requeue is followed by the next step.
Step_RequeueIgnored(name, outcomes) ==
  /\ pc > 0
  /\ reconcileSteps(path)[pc] = name
  /\ \E o \in outcomes :
       /\ nabObj' = o.nabObj
       /\ backups' = o.backups
       /\ requests' = o.requests
       /\ restores' = o.restores
       /\ calls' = calls \o o.calls
       /\ IF o.outcome \in {"continue", "requeue"} /\ pc < Len(reconcileSteps(path))
            THEN /\ pc' = pc + 1
                 /\ nab' = o.nab
                 /\ fresh' = (o.nabObj.exists /\ (fresh \/ o.refetched))
                 /\ result' = "running"
            ELSE /\ pc' = 0
                 /\ nab' = NoNab
                 /\ fresh' = FALSE
                 /\ result' = IF o.outcome = "continue" THEN "done" ELSE o.outcome
  /\ UNCHANGED <<path, enforced, children, budget>>

\* Reconcile, lines 97-111 and 160-172: one step of the selected path.
Step(name, outcomes) ==
  /\ pc > 0
  /\ reconcileSteps(path)[pc] = name
  /\ \E o \in outcomes :
       /\ nabObj' = o.nabObj
       /\ backups' = o.backups
       /\ requests' = o.requests
       /\ restores' = o.restores
       /\ calls' = calls \o o.calls
       /\ IF o.outcome = "continue" /\ pc < Len(reconcileSteps(path))
            THEN /\ pc' = pc + 1
                 /\ nab' = o.nab
                 /\ fresh' = (o.nabObj.exists /\ (fresh \/ o.refetched))
                 /\ result' = "running"
            ELSE /\ pc' = 0
                 /\ nab' = NoNab
                 /\ fresh' = FALSE
                 /\ result' = IF o.outcome = "continue" THEN "done" ELSE o.outcome
  /\ UNCHANGED <<path, enforced, children, budget>>

\* Reconcile, lines 101-158: read the object and select the path.
ReconcileStart ==
  /\ pc = 0
  /\ nabObj.exists
  /\ nab' = nabObj
  /\ fresh' = TRUE
  /\ path' = SelectPath(nabObj)
  /\ pc' = 1
  /\ result' = "running"
  /\ calls' = <<>>
  /\ UNCHANGED <<nabObj, enforced, engineVars, budget>>

\* ------------------------------------------------------ deletion steps
DeletingCondition(message) == Condition("True", "DeletionPending", message)

\* The copy with phase Deleting and condition Deleting, and whether either
\* changed (lines 187-195 and 231-239).
MarkDeleting(n, message) ==
  LET p == updateNonAdminPhase(n.status.phase, PhaseDeleting)
      c == SetStatusCondition(n.status.conditions, "Deleting", DeletingCondition(message))
  IN  [ nab |-> [n EXCEPT !.status.phase = p.phase, !.status.conditions = c.conditions],
        updated |-> p.updated \/ c.updated ]

\* Lines 205-213 with line 211 lost: no requeue after the Delete call.
CallDelete_NoRequeue(n, obj) ==
  IF ~n.deletionTimestamp
    THEN { Out("error", n, obj, backups, requests, restores, <<"DeleteNAB">>) }
         \cup (IF obj.exists
                 THEN { Out("continue", n, ApplyDelete(obj), backups, requests, restores, <<"DeleteNAB">>) }
                 ELSE {})
    ELSE Continue(n, obj)

\* Lines 205-213: Delete on the tenant object unless it is already marked.
CallDelete(n, obj) ==
  IF ~n.deletionTimestamp
    THEN { Out("error", n, obj, backups, requests, restores, <<"DeleteNAB">>) }
         \cup (IF obj.exists
                 THEN { Out("requeue", n, ApplyDelete(obj), backups, requests, restores, <<"DeleteNAB">>) }
                 ELSE {})
    ELSE Continue(n, obj)

setStatusAndConditionForDeletionAndCallDeleteOutcomes ==
  LET m == MarkDeleting(nab, "backup accepted for deletion")
  IN  IF m.updated THEN StatusUpdateThen(m.nab, CallDelete)
      ELSE CallDelete(m.nab, nabObj)

setStatusForDirectKubernetesAPIDeletionOutcomes ==
  LET m == MarkDeleting(nab, "permanent backup deletion requires setting spec.deleteBackup to true")
  IN  IF m.updated THEN StatusUpdateThen(m.nab, Continue)
      ELSE Continue(m.nab, nabObj)

\* Lines 253-272: every NonAdminRestore naming this backup is deleted; the
\* first failing Delete ends the step.
deleteNonAdminRestoresOutcomes ==
  { Out("continue", nab, nabObj, backups, requests, 0, [i \in 1..restores |-> "DeleteNAR"]) }
  \cup { Out("error", nab, nabObj, backups, requests, restores - k, [i \in 1..(k + 1) |-> "DeleteNAR"]) :
           k \in 0..(restores - 1) }

\* Lines 457-470: drop the finalizer and Update.
removeNabFinalizerUponVeleroBackupDeletion(n) ==
  LET n2 == [n EXCEPT !.finalizer = FALSE]
  IN  { Out("error", n2, nabObj, backups, requests, restores, <<"Update">>) }
      \cup (IF Writable
              THEN { Out("continue", [n2 EXCEPT !.status = nabObj.status], ApplyUpdate(nabObj, n2),
                         backups, requests, restores, <<"Update">>) }
              ELSE {})

\* Lines 393-400: Delete on the engine Backup that was found.
DeleteVeleroBackup(n, veleroBackup) ==
  { Out("error", n, nabObj, backups, requests, restores, <<"DeleteBackup">>),
    Out("continue", n, nabObj, RemoveBackup(backups, veleroBackup.name), requests, restores, <<"DeleteBackup">>) }

\* The step with the check `veleroBackup != nil` of line 393 lost: the
\* finalizer goes whatever the lookup found.
deleteVeleroBackupObjectsOutcomes_NoCheck ==
  IF nab.status.veleroBackup.nacUUID = EmptyString THEN { Return("continue", nab) }
  ELSE LET found == GetVeleroBackupByLabel(nab.status.veleroBackup.nacUUID)
       IN  IF found.err THEN { Return("error", nab) }
           ELSE removeNabFinalizerUponVeleroBackupDeletion(nab)

\* The step with the error return of lines 386-391 lost: a failed lookup
\* counts as nothing found.
deleteVeleroBackupObjectsOutcomes_ErrorIgnored ==
  IF nab.status.veleroBackup.nacUUID = EmptyString THEN { Return("continue", nab) }
  ELSE LET found == GetVeleroBackupByLabel(nab.status.veleroBackup.nacUUID)
       IN  IF ~found.err /\ ~found.isNil THEN DeleteVeleroBackup(nab, found.obj)
           ELSE removeNabFinalizerUponVeleroBackupDeletion(nab)

deleteVeleroBackupObjectsOutcomes ==
  IF nab.status.veleroBackup.nacUUID = EmptyString THEN { Return("continue", nab) }
  ELSE LET found == GetVeleroBackupByLabel(nab.status.veleroBackup.nacUUID)
       IN  IF found.err THEN { Return("error", nab) }
           ELSE IF ~found.isNil THEN DeleteVeleroBackup(nab, found.obj)
           ELSE removeNabFinalizerUponVeleroBackupDeletion(nab)

\* Lines 429-435: Delete on the DeleteBackupRequest that was found.
DeleteRequest(n, request) ==
  { Out("error", n, nabObj, backups, requests, restores, <<"DeleteDBR">>),
    Out("continue", n, nabObj, backups, requests \ {request}, restores, <<"DeleteDBR">>) }

deleteDeleteBackupRequestObjectsOutcomes ==
  IF nab.status.veleroBackup.nacUUID = EmptyString THEN { Return("continue", nab) }
  ELSE LET found == GetVeleroDeleteBackupRequestByLabel(nab.status.veleroBackup.nacUUID)
       IN  IF found.err THEN { Return("error", nab) }
           ELSE IF ~found.isNil THEN DeleteRequest(nab, found.obj)
           ELSE { Return("continue", nab) }

\* updateNonAdminBackupDeleteBackupRequestStatus, lines 892-911.
updateNonAdminBackupDeleteBackupRequestStatus(status, request) ==
  IF status.veleroDeleteBackupRequest.status = request.phase
    THEN [status |-> status, updated |-> FALSE]
    ELSE [status |-> [status EXCEPT !.veleroDeleteBackupRequest.status = request.phase],
          updated |-> TRUE]

\* builder.WithGenerateName with CreateRetryGenerateName: a name not in use.
GenerateName(prefix) ==
  LET free == { x \in RequestSuffixes : (prefix \o x) \notin RequestNames }
  IN  prefix \o (CHOOSE x \in free : TRUE)

\* Lines 351-362: mirror the request's status and persist it if it changed.
SyncRequestStatus(n, rq, request, cs) ==
  LET u == updateNonAdminBackupDeleteBackupRequestStatus(n.status, request)
      n2 == [n EXCEPT !.status = u.status]
  IN  IF u.updated
        THEN { Out("error", n2, nabObj, backups, rq, restores, cs \o <<"StatusUpdate">>) }
             \cup (IF Writable
                     THEN { Out("continue", n2, ApplyStatusUpdate(nabObj, n2), backups, rq, restores,
                                cs \o <<"StatusUpdate">>) }
                     ELSE {})
        ELSE { Out("continue", n2, nabObj, backups, rq, restores, cs) }

\* Lines 321-347: build and create the request, and note it in the copy.
CreateRequest(n, veleroBackup) ==
  LET uuid == n.status.veleroBackup.nacUUID
      request == DeleteBackupRequest(GenerateName(veleroBackup.name \o "-"), veleroBackup.name, uuid, TRUE)
      n2 == [n EXCEPT !.status.veleroDeleteBackupRequest =
                        [@ EXCEPT !.nacUUID = uuid, !.namespace = OADPNamespace, !.name = request.name]]
  IN  { Out("error", n, nabObj, backups, requests, restores, <<"CreateDBR">>) }
      \cup SyncRequestStatus(n2, requests \cup {request}, request, <<"CreateDBR">>)

\* The step with the lookup of lines 314-319 finding nothing whatever
\* exists: a request is created in every pass that finds the Backup.
createVeleroDeleteBackupRequestOutcomes_AlwaysCreates ==
  IF ~nab.finalizer \/ nab.status.veleroBackup.nacUUID = EmptyString THEN { Return("continue", nab) }
  ELSE LET uuid == nab.status.veleroBackup.nacUUID
           veleroBackup == GetVeleroBackupByLabel(uuid)
       IN  IF veleroBackup.err THEN { Return("error", nab) }
           ELSE IF veleroBackup.isNil THEN removeNabFinalizerUponVeleroBackupDeletion(nab)
           ELSE CreateRequest(nab, veleroBackup.obj)

\* createVeleroDeleteBackupRequest, lines 291-363.
createVeleroDeleteBackupRequestOutcomes ==
  IF ~nab.finalizer \/ nab.status.veleroBackup.nacUUID = EmptyString THEN { Return("continue", nab) }
  ELSE LET uuid == nab.status.veleroBackup.nacUUID
           veleroBackup == GetVeleroBackupByLabel(uuid)
           deleteBackupRequest == GetVeleroDeleteBackupRequestByLabel(uuid)
       IN  IF veleroBackup.err THEN { Return("error", nab) }
           ELSE IF veleroBackup.isNil THEN removeNabFinalizerUponVeleroBackupDeletion(nab)
           ELSE IF deleteBackupRequest.err THEN { Return("error", nab) }
           ELSE IF deleteBackupRequest.isNil THEN CreateRequest(nab, veleroBackup.obj)
           ELSE SyncRequestStatus(nab, requests, deleteBackupRequest.obj, <<>>)

\* ------------------------------------------------------ creation steps
\* The step with the guard of line 486 lost: the phase is set to New
\* whatever it was.
initNabCreateOutcomes_AlwaysNew ==
  LET p == updateNonAdminPhase(nab.status.phase, PhaseNew)
      n2 == [nab EXCEPT !.status.phase = p.phase]
  IN  IF p.updated THEN StatusUpdateThen(n2, Continue) ELSE Continue(n2, nabObj)

\* initNabCreate, lines 484-503.
initNabCreateOutcomes ==
  IF nab.status.phase /= EmptyString THEN { Return("continue", nab) }
  ELSE LET p == updateNonAdminPhase(nab.status.phase, PhaseNew)
           n2 == [nab EXCEPT !.status.phase = p.phase]
       IN  IF p.updated THEN StatusUpdateThen(n2, Continue) ELSE Continue(n2, nabObj)

Terminal(n, obj) == { Out("terminal", n, obj, backups, requests, restores, <<>>) }

\* The step with the terminal return of line 537 lost: the pass goes on
\* after the rejection is stored.
validateSpecOutcomes_GoesOn ==
  LET err == ValidateBackupSpec(nab, enforced)
      p == updateNonAdminPhase(nab.status.phase, IF err /= "" THEN PhaseBackingOff ELSE nab.status.phase)
      c == SetStatusCondition(nab.status.conditions, "Accepted",
                              IF err /= "" THEN Condition("False", "InvalidBackupSpec", err)
                              ELSE Condition("True", "BackupAccepted", "backup accepted"))
      n2 == [nab EXCEPT !.status.phase = p.phase, !.status.conditions = c.conditions]
  IN  IF p.updated \/ c.updated THEN StatusUpdateThen(n2, Continue) ELSE Continue(n2, nabObj)

\* validateSpec, lines 517-560.
validateSpecOutcomes ==
  LET err == ValidateBackupSpec(nab, enforced)
  IN  IF err /= ""
        THEN LET p == updateNonAdminPhase(nab.status.phase, PhaseBackingOff)
                 c == SetStatusCondition(nab.status.conditions, "Accepted",
                                         Condition("False", "InvalidBackupSpec", err))
                 n2 == [nab EXCEPT !.status.phase = p.phase, !.status.conditions = c.conditions]
             IN  IF p.updated \/ c.updated THEN StatusUpdateThen(n2, Terminal) ELSE Terminal(n2, nabObj)
        ELSE LET c == SetStatusCondition(nab.status.conditions, "Accepted",
                                         Condition("True", "BackupAccepted", "backup accepted"))
                 n2 == [nab EXCEPT !.status.conditions = c.conditions]
             IN  IF c.updated THEN StatusUpdateThen(n2, Continue) ELSE Continue(n2, nabObj)

\* Lines 580-592: the UUID a tenant object without one receives.
NewBackupUUID(n) ==
  IF n.syncLabel /= NoLabel THEN n.syncLabel ELSE GenerateNacObjectUUID(n.namespace, n.name)

\* The step with the test of line 580 lost: the UUID is written whether the
\* status holds one or not.
setBackupUUIDInStatusOutcomes_Overwrites ==
  { [o EXCEPT !.refetched = TRUE] : o \in
      { Return("error", nab) }
      \cup (IF ~nabObj.exists THEN {}
            ELSE LET uuid == NewBackupUUID(nabObj)
                     n2 == [nabObj EXCEPT !.status.veleroBackup.nacUUID = uuid,
                                          !.status.veleroBackup.namespace = OADPNamespace,
                                          !.status.veleroBackup.name = uuid]
                 IN  { Out("error", n2, nabObj, backups, requests, restores, <<"StatusUpdate">>),
                       Out("continue", n2, ApplyStatusUpdate(nabObj, n2), backups, requests, restores,
                           <<"StatusUpdate">>) }) }

\* setBackupUUIDInStatus, lines 571-602: the object is read again first.
setBackupUUIDInStatusOutcomes ==
  { [o EXCEPT !.refetched = TRUE] : o \in
      { Return("error", nab) }
      \cup (IF ~nabObj.exists THEN {}
            ELSE IF nabObj.status.veleroBackup.nacUUID = EmptyString
              THEN LET uuid == NewBackupUUID(nabObj)
                       n2 == [nabObj EXCEPT !.status.veleroBackup =
                                [NilVeleroBackup EXCEPT !.nacUUID = uuid, !.namespace = OADPNamespace,
                                                        !.name = uuid]]
                   IN  { Out("error", n2, nabObj, backups, requests, restores, <<"StatusUpdate">>),
                         Out("continue", n2, ApplyStatusUpdate(nabObj, n2), backups, requests, restores,
                             <<"StatusUpdate">>) }
              ELSE { Return("continue", nabObj) }) }

\* The step with the error of the Update dropped: the pass goes on without
\* the finalizer stored.
setFinalizerOnNonAdminBackupOutcomes_ErrorDropped ==
  IF ~nab.finalizer
    THEN LET n2 == [nab EXCEPT !.finalizer = TRUE]
         IN  { Out("continue", n2, nabObj, backups, requests, restores, <<"Update">>) }
             \cup (IF Writable
                     THEN { Out("continue", [n2 EXCEPT !.status = nabObj.status], ApplyUpdate(nabObj, n2),
                                backups, requests, restores, <<"Update">>) }
                     ELSE {})
    ELSE { Return("continue", nab) }

\* The step with the test of line 608 lost: the Update is sent whether the
\* finalizer is on the object or not.
setFinalizerOnNonAdminBackupOutcomes_AlwaysUpdates ==
  LET n2 == [nab EXCEPT !.finalizer = TRUE]
  IN  { Out("error", n2, nabObj, backups, requests, restores, <<"Update">>) }
      \cup (IF Writable
              THEN { Out("continue", [n2 EXCEPT !.status = nabObj.status], ApplyUpdate(nabObj, n2),
                         backups, requests, restores, <<"Update">>) }
              ELSE {})

\* setFinalizerOnNonAdminBackup, lines 604-619.
setFinalizerOnNonAdminBackupOutcomes ==
  IF ~nab.finalizer
    THEN LET n2 == [nab EXCEPT !.finalizer = TRUE]
         IN  { Out("error", n2, nabObj, backups, requests, restores, <<"Update">>) }
             \cup (IF Writable
                     THEN { Out("continue", [n2 EXCEPT !.status = nabObj.status], ApplyUpdate(nabObj, n2),
                                backups, requests, restores, <<"Update">>) }
                     ELSE {})
    ELSE { Return("continue", nab) }

\* ---------------------------------------------- the engine Backup spec
SpecFields == DOMAIN ZeroSpec

\* The loop of lines 677-684 without the test of the tenant's field: every
\* enforced field that is set wins.
EnforceSpec_EnforcedWins(backupSpec, enforcedSpec) ==
  [ f \in DOMAIN ZeroSpec |->
      IF enforcedSpec[f] /= ZeroSpec[f] THEN enforcedSpec[f] ELSE backupSpec[f] ]

\* Lines 675-684: every enforced field that is set replaces a tenant field
\* that is not.
EnforceSpec(backupSpec, enforcedSpec) ==
  [ f \in SpecFields |->
      IF enforcedSpec[f] /= ZeroSpec[f] /\ backupSpec[f] = ZeroSpec[f]
        THEN enforcedSpec[f] ELSE backupSpec[f] ]

\* The assignment of line 688 lost: the merged list is kept.
ConfineNamespaces_Kept(backupSpec, n) == backupSpec

\* Lines 686-688: the included namespaces are the tenant's namespace.
ConfineNamespaces(backupSpec, n) == [backupSpec EXCEPT !.includedNamespaces = <<n.namespace>>]

\* Lines 699-718 lost: no exclusion is appended.
ExcludeResources_None(backupSpec) == backupSpec

\* Lines 699-718 with the test of line 706 lost: the unified list is used
\* whatever filters are set.
ExcludeResources_UnifiedOnly(backupSpec) ==
  [backupSpec EXCEPT
     !.excludedResources = (@ \o alwaysExcludedNamespacedResources) \o alwaysExcludedClusterResources]

\* Lines 699-718: the resources no non-admin backup holds.
ExcludeResources(backupSpec) ==
  LET haveNewResourceFilterParameters ==
        \/ Len(backupSpec.includedClusterScopedResources) > 0
        \/ Len(backupSpec.excludedClusterScopedResources) > 0
        \/ Len(backupSpec.includedNamespaceScopedResources) > 0
        \/ Len(backupSpec.excludedNamespaceScopedResources) > 0
  IN  IF haveNewResourceFilterParameters
        THEN [backupSpec EXCEPT
                !.excludedNamespaceScopedResources = @ \o alwaysExcludedNamespacedResources,
                !.excludedClusterScopedResources = @ \o alwaysExcludedClusterResources]
        ELSE [backupSpec EXCEPT
                !.excludedResources = (@ \o alwaysExcludedNamespacedResources)
                                        \o alwaysExcludedClusterResources]

\* Lines 689-697: the tenant's storage location is replaced by the engine
\* storage location behind it.
ResolveStorageLocation(backupSpec) ==
  IF backupSpec.storageLocation /= EmptyString
    THEN [backupSpec EXCEPT !.storageLocation = NonAdminBsls[@]]
    ELSE backupSpec

\* Line 722 with the tenant object's name in place of the UUID.
BuildVeleroBackup_NamedAfterTenant(n, backupSpec) ==
  VeleroBackup(n.name, n.status.veleroBackup.nacUUID,
               GetNonAdminLabels, GetNonAdminBackupAnnotations(n), backupSpec, TRUE)

\* Lines 720-733: the engine Backup built for the tenant object.
BuildVeleroBackup(n, backupSpec) ==
  VeleroBackup(n.status.veleroBackup.nacUUID, n.status.veleroBackup.nacUUID,
               GetNonAdminLabels, GetNonAdminBackupAnnotations(n), backupSpec, TRUE)

\* ------------------------------------------------- status projection
\* The function with lines 885-886 lost: nothing is mirrored.
updateNonAdminBackupVeleroBackupSpecStatus_NoMirror(status, veleroBackup) ==
  [status |-> status, updated |-> FALSE]

\* updateNonAdminBackupVeleroBackupSpecStatus, lines 864-888.
updateNonAdminBackupVeleroBackupSpecStatus(status, veleroBackup) ==
  IF status.veleroBackup.spec = veleroBackup.spec /\ status.veleroBackup.status = veleroBackup.phase
    THEN [status |-> status, updated |-> FALSE]
    ELSE [status |-> [status EXCEPT !.veleroBackup.spec = veleroBackup.spec,
                                    !.veleroBackup.status = veleroBackup.phase],
          updated |-> TRUE]

CountPhase(items, phase) == Cardinality({ i \in DOMAIN items : items[i].phase = phase })

\* The function with only the comparison of line 919 setting updated.
updateNonAdminBackupPodVolumeBackupStatus_TotalDecides(status, items) ==
  LET counted == Counters(Len(items), CountPhase(items, "New"), CountPhase(items, "InProgress"),
                          CountPhase(items, "Failed"), CountPhase(items, "Completed"))
  IN  [ status |-> [status EXCEPT !.fileSystemPodVolumeBackups = counted],
        updated |-> status.fileSystemPodVolumeBackups.total /= counted.total ]

\* updateNonAdminBackupPodVolumeBackupStatus, lines 913-959.
updateNonAdminBackupPodVolumeBackupStatus(status, items) ==
  LET counted == Counters(Len(items), CountPhase(items, "New"), CountPhase(items, "InProgress"),
                          CountPhase(items, "Failed"), CountPhase(items, "Completed"))
  IN  [ status |-> [status EXCEPT !.fileSystemPodVolumeBackups = counted],
        updated |-> status.fileSystemPodVolumeBackups /= counted ]

\* updateNonAdminBackupDataUploadStatus, lines 961-1035.
updateNonAdminBackupDataUploadStatus(status, items) ==
  LET counted == [ total |-> Len(items),
                   new |-> CountPhase(items, "New"),
                   accepted |-> CountPhase(items, "Accepted"),
                   prepared |-> CountPhase(items, "Prepared"),
                   inProgress |-> CountPhase(items, "InProgress"),
                   canceling |-> CountPhase(items, "Canceling"),
                   canceled |-> CountPhase(items, "Canceled"),
                   failed |-> CountPhase(items, "Failed"),
                   completed |-> CountPhase(items, "Completed") ]
  IN  [ status |-> [status EXCEPT !.dataMoverDataUploads = counted],
        updated |-> status.dataMoverDataUploads /= counted ]

\* client.List with the backup-name label selector.
ListChildren(items, veleroBackup) ==
  SelectSeq(items, LAMBDA c : c.backupName = GetValidName(veleroBackup.name))

\* Lines 749-760 with the else branch also writing: a failed lookup clears
\* the queue position.
ProjectQueueInfo_FailureClears(status, bk, veleroBackup, ok) ==
  IF ok THEN [status |-> [status EXCEPT !.queueInfo = GetBackupQueueInfo(bk, veleroBackup)],
              updated |-> TRUE]
  ELSE [status |-> [status EXCEPT !.queueInfo = 0], updated |-> TRUE]

\* Lines 749-760: the queue position is stored, and reported as updated,
\* whenever the lookup succeeds.
ProjectQueueInfo(status, bk, veleroBackup, ok) ==
  IF ok THEN [status |-> [status EXCEPT !.queueInfo = GetBackupQueueInfo(bk, veleroBackup)],
              updated |-> TRUE]
  ELSE [status |-> status, updated |-> FALSE]

\* The projection with lines 764-771 lost: phase Created is stored without
\* condition Queued.
ProjectStatus_QueuedNotSet(n, obj, bk, veleroBackup, cs) ==
  UNION { LET q == ProjectQueueInfo(n.status, bk, veleroBackup, okQueue)
              p == updateNonAdminPhase(q.status.phase, PhaseCreated)
              s1 == [q.status EXCEPT !.phase = p.phase]
              m == updateNonAdminBackupVeleroBackupSpecStatus(s1, veleroBackup)
              v == updateNonAdminBackupPodVolumeBackupStatus(m.status,
                     IF okPvb THEN ListChildren(children.pvb, veleroBackup) ELSE <<>>)
              d == updateNonAdminBackupDataUploadStatus(v.status,
                     IF okDu THEN ListChildren(children.du, veleroBackup) ELSE <<>>)
              n2 == [n EXCEPT !.status = d.status]
          IN  IF m.updated \/ p.updated \/ q.updated \/ v.updated \/ d.updated
                THEN { Out("error", n2, obj, bk, requests, restores, cs \o <<"StatusUpdate">>) }
                     \cup (IF Writable
                             THEN { Out("continue", n2, ApplyStatusUpdate(obj, n2), bk, requests, restores,
                                        cs \o <<"StatusUpdate">>) }
                             ELSE {})
                ELSE { Out("continue", n2, obj, bk, requests, restores, cs) }
        : okQueue \in BOOLEAN, okPvb \in BOOLEAN, okDu \in BOOLEAN }

\* Lines 749-810: project the engine Backup into the status and persist it
\* if anything is reported as updated.  A failed queue lookup or child list
\* is logged and the step goes on (with an empty list).
ProjectStatus(n, obj, bk, veleroBackup, cs) ==
  UNION { LET q == ProjectQueueInfo(n.status, bk, veleroBackup, okQueue)
              p == updateNonAdminPhase(q.status.phase, PhaseCreated)
              c == SetStatusCondition(q.status.conditions, "Queued",
                                      Condition("True", "BackupScheduled", "Created Velero Backup object"))
              s1 == [q.status EXCEPT !.phase = p.phase, !.conditions = c.conditions]
              m == updateNonAdminBackupVeleroBackupSpecStatus(s1, veleroBackup)
              v == updateNonAdminBackupPodVolumeBackupStatus(m.status,
                     IF okPvb THEN ListChildren(children.pvb, veleroBackup) ELSE <<>>)
              d == updateNonAdminBackupDataUploadStatus(v.status,
                     IF okDu THEN ListChildren(children.du, veleroBackup) ELSE <<>>)
              n2 == [n EXCEPT !.status = d.status]
          IN  IF m.updated \/ p.updated \/ c.updated \/ q.updated \/ v.updated \/ d.updated
                THEN { Out("error", n2, obj, bk, requests, restores, cs \o <<"StatusUpdate">>) }
                     \cup (IF Writable
                             THEN { Out("continue", n2, ApplyStatusUpdate(obj, n2), bk, requests, restores,
                                        cs \o <<"StatusUpdate">>) }
                             ELSE {})
                ELSE { Out("continue", n2, obj, bk, requests, restores, cs) }
        : okQueue \in BOOLEAN, okPvb \in BOOLEAN, okDu \in BOOLEAN }

\* Lines 646-672: no engine Backup carries the UUID, and the tenant object
\* has a valid sync label or is in phase Created.  The error stays nil when
\* neither the sync label is valid nor condition Queued is True, and reading
\* its message then panics.
VeleroBackupNotFound(n) ==
  LET err == IF IsStatusConditionTrue(n.status.conditions, "Queued")
               THEN "NonAdminBackup is finalized and its associated Velero Backup has been removed"
             ELSE IF CheckLabelAnnotationValueIsValid(n.syncLabel)
               THEN "related Velero Backup to be synced from does not exist"
             ELSE "<nil>"
      p == updateNonAdminPhase(n.status.phase, PhaseBackingOff)
      c == SetStatusCondition(n.status.conditions, "Accepted",
                              Condition("False", "VeleroBackupNotFound", err))
      n2 == [n EXCEPT !.status.phase = p.phase, !.status.conditions = c.conditions]
  IN  IF err = "<nil>" THEN { Return("panic", n) }
      ELSE IF p.updated \/ c.updated THEN StatusUpdateThen(n2, Terminal)
      ELSE Terminal(n2, nabObj)

\* Line 647: the tenant object must not get a new engine Backup.
MustNotCreate(n) ==
  CheckLabelAnnotationValueIsValid(n.syncLabel) \/ n.status.phase = PhaseCreated

\* The step with the Create call of line 735 lost: the Backup that was built
\* is projected but never stored.
CreateVeleroBackup_NotStored(n) ==
  LET enforcedSpec == EnforceSpec(n.backupSpec, enforced)
      confined == ConfineNamespaces(enforcedSpec, n)
  IN  IF confined.storageLocation /= EmptyString /\ confined.storageLocation \notin DOMAIN NonAdminBsls
        THEN { Return("error", n) }
        ELSE ProjectStatus(n, nabObj, backups,
                           BuildVeleroBackup(n, ExcludeResources(ResolveStorageLocation(confined))), <<>>)

\* Lines 673-743: build the engine Backup, create it, go on to project it.
CreateVeleroBackup(n) ==
  LET enforcedSpec == EnforceSpec(n.backupSpec, enforced)
      confined == ConfineNamespaces(enforcedSpec, n)
  IN  IF confined.storageLocation /= EmptyString /\ confined.storageLocation \notin DOMAIN NonAdminBsls
        THEN { Return("error", n) }
        ELSE LET veleroBackup == BuildVeleroBackup(n, ExcludeResources(ResolveStorageLocation(confined)))
             IN  { Out("error", n, nabObj, backups, requests, restores, <<"CreateBackup">>) }
                 \cup (IF veleroBackup.name \notin BackupNames
                         THEN ProjectStatus(n, nabObj, Append(backups, veleroBackup), veleroBackup,
                                            <<"CreateBackup">>)
                         ELSE {})

\* The check of line 744 lost: any Backup that was found is adopted.
OriginMatches_Unchecked(veleroBackup, n) == TRUE

\* Line 744: the engine Backup that was found belongs to the tenant's
\* namespace.
OriginMatches(veleroBackup, n) == veleroBackup.originNamespace = n.namespace

\* createVeleroBackupAndSyncWithNonAdminBackup, lines 631-811.
createVeleroBackupAndSyncWithNonAdminBackupOutcomes ==
  IF nab.status.veleroBackup.nacUUID = EmptyString THEN { Return("error", nab) }
  ELSE LET found == GetVeleroBackupByLabel(nab.status.veleroBackup.nacUUID)
       IN  IF found.err THEN { Return("error", nab) }
           ELSE IF found.isNil
             THEN IF MustNotCreate(nab) THEN VeleroBackupNotFound(nab) ELSE CreateVeleroBackup(nab)
           ELSE IF ~OriginMatches(found.obj, nab) THEN Terminal(nab, nabObj)
           ELSE ProjectStatus(nab, nabObj, backups, found.obj, <<>>)

\* --------------------------------------------------- the step actions
setStatusAndConditionForDeletionAndCallDelete ==
  Step("setStatusAndConditionForDeletionAndCallDelete", setStatusAndConditionForDeletionAndCallDeleteOutcomes)

deleteNonAdminRestores == Step("deleteNonAdminRestores", deleteNonAdminRestoresOutcomes)

createVeleroDeleteBackupRequest ==
  Step("createVeleroDeleteBackupRequest", createVeleroDeleteBackupRequestOutcomes)

setStatusForDirectKubernetesAPIDeletion ==
  Step("setStatusForDirectKubernetesAPIDeletion", setStatusForDirectKubernetesAPIDeletionOutcomes)

deleteDeleteBackupRequestObjects ==
  Step("deleteDeleteBackupRequestObjects", deleteDeleteBackupRequestObjectsOutcomes)

deleteVeleroBackupObjects == Step("deleteVeleroBackupObjects", deleteVeleroBackupObjectsOutcomes)

initNabCreate == Step("initNabCreate", initNabCreateOutcomes)

validateSpec == Step("validateSpec", validateSpecOutcomes)

setBackupUUIDInStatus == Step("setBackupUUIDInStatus", setBackupUUIDInStatusOutcomes)

setFinalizerOnNonAdminBackup == Step("setFinalizerOnNonAdminBackup", setFinalizerOnNonAdminBackupOutcomes)

createVeleroBackupAndSyncWithNonAdminBackup ==
  Step("createVeleroBackupAndSyncWithNonAdminBackup", createVeleroBackupAndSyncWithNonAdminBackupOutcomes)

Reconcile ==
  \/ ReconcileStart
  \/ setStatusAndConditionForDeletionAndCallDelete
  \/ deleteNonAdminRestores
  \/ createVeleroDeleteBackupRequest
  \/ setStatusForDirectKubernetesAPIDeletion
  \/ deleteDeleteBackupRequestObjects
  \/ deleteVeleroBackupObjects
  \/ initNabCreate
  \/ validateSpec
  \/ setBackupUUIDInStatus
  \/ setFinalizerOnNonAdminBackup
  \/ createVeleroBackupAndSyncWithNonAdminBackup

\* ---------------------------------------------------- the tenant acts
SyncLabels == {NoLabel, EmptyString, SyncUUID}

\* A write of the tenant to the stored object: the running pass's copy is
\* stale from then on.
TenantWrites(obj) ==
  /\ nabObj.exists
  /\ budget > 0
  /\ obj /= nabObj
  /\ nabObj' = obj
  /\ fresh' = FALSE
  /\ budget' = budget - 1
  /\ UNCHANGED <<nab, enforced, engineVars, passVars>>

TenantSetsDeleteBackup == \E v \in BOOLEAN : TenantWrites([nabObj EXCEPT !.deleteBackup = v])

TenantDeletes == TenantWrites(ApplyDelete(nabObj))

TenantEditsSpec == \E spec \in TenantSpecs : TenantWrites([nabObj EXCEPT !.backupSpec = spec])

TenantEditsSyncLabel == \E label \in SyncLabels : TenantWrites([nabObj EXCEPT !.syncLabel = label])

\* The tenant creates a NonAdminRestore from this backup.
TenantCreatesRestore ==
  /\ nabObj.exists
  /\ budget > 0
  /\ budget' = budget - 1
  /\ restores' = restores + 1
  /\ UNCHANGED <<nabObj, nab, fresh, enforced, backups, requests, children, passVars>>

\* ------------------------------- the engine and other writers act
ExternalEvent ==
  /\ budget > 0
  /\ budget' = budget - 1

\* Somebody else creates a Backup in the operator namespace.
ExternalCreatesBackup ==
  /\ ExternalEvent
  /\ \E uuid \in UUIDs, origin \in {EmptyString, NabNamespace, OtherNamespace} :
       backups' = Append(backups,
                         VeleroBackup(CHOOSE name \in ExternalBackupNames : name \notin BackupNames,
                                      uuid, GetNonAdminLabels,
                                      [NoAnnotations EXCEPT !.originNamespace = origin], ZeroSpec, FALSE))
  /\ UNCHANGED <<nabObj, nab, fresh, enforced, requests, restores, children, passVars>>

\* Somebody else deletes a Backup of the operator namespace.
ExternalDeletesBackup ==
  /\ ExternalEvent
  /\ \E i \in DOMAIN backups : backups' = RemoveBackup(backups, backups[i].name)
  /\ UNCHANGED <<nabObj, nab, fresh, enforced, requests, restores, children, passVars>>

\* Somebody else creates a DeleteBackupRequest carrying a UUID label.
ExternalCreatesRequest ==
  /\ ExternalEvent
  /\ \E uuid \in UUIDs :
       requests' = requests \cup {DeleteBackupRequest(GenerateName("ext-"), "ext", uuid, FALSE)}
  /\ UNCHANGED <<nabObj, nab, fresh, enforced, backups, restores, children, passVars>>

NextBackupPhase(phase) == "Completed"

\* The engine works on a Backup.
EngineRunsBackup ==
  /\ \E i \in DOMAIN backups :
       /\ backups[i].phase \notin TerminalBackupPhases
       /\ backups' = [backups EXCEPT ![i].phase = NextBackupPhase(@)]
  /\ UNCHANGED <<nabObj, nab, fresh, enforced, requests, restores, children, passVars, budget>>

\* The engine processes a DeleteBackupRequest: the Backup it names goes.
EngineProcessesRequest ==
  /\ \E r \in requests :
       /\ r.phase = EmptyString
       /\ requests' = (requests \ {r}) \cup {[r EXCEPT !.phase = "Processed"]}
       /\ backups' = RemoveBackup(backups, r.backupName)
  /\ UNCHANGED <<nabObj, nab, fresh, enforced, restores, children, passVars, budget>>

\* The engine starts a PodVolumeBackup or a DataUpload for a Backup.
EngineStartsChild ==
  /\ ExternalEvent
  /\ \E i \in DOMAIN backups, kind \in {"pvb", "du"} :
       children' = [children EXCEPT ![kind] =
                      Append(@, [backupName |-> GetValidName(backups[i].name), phase |-> "InProgress"])]
  /\ UNCHANGED <<nabObj, nab, fresh, enforced, backups, requests, restores, passVars>>

\* A PodVolumeBackup or DataUpload completes.
EngineCompletesChild ==
  /\ \E kind \in {"pvb", "du"} : \E i \in DOMAIN children[kind] :
       /\ children[kind][i].phase = "InProgress"
       /\ children' = [children EXCEPT ![kind][i].phase = "Completed"]
  /\ UNCHANGED <<nabObj, nab, fresh, enforced, backups, requests, restores, passVars, budget>>

Tenant ==
  \/ TenantSetsDeleteBackup
  \/ TenantDeletes
  \/ TenantEditsSpec
  \/ TenantEditsSyncLabel
  \/ TenantCreatesRestore

Engine ==
  \/ ExternalCreatesBackup
  \/ ExternalDeletesBackup
  \/ ExternalCreatesRequest
  \/ EngineRunsBackup
  \/ EngineProcessesRequest
  \/ EngineStartsChild
  \/ EngineCompletesChild

\* ------------------------------------------------------ specification
Init ==
  /\ \E spec \in TenantSpecs, label \in {NoLabel, SyncUUID} : nabObj = NewNab(spec, label)
  /\ nab = NoNab
  /\ fresh = FALSE
  /\ enforced = EnforcedSpec
  /\ backups = <<>>
  /\ requests = {}
  /\ restores = 0
  /\ children = [pvb |-> <<>>, du |-> <<>>]
  /\ path = "none"
  /\ pc = 0
  /\ result = "none"
  /\ calls = <<>>
  /\ budget = MaxEnvironmentSteps

Next == Reconcile \/ Tenant \/ Engine

Spec == Init /\ [][Next]_vars

\* ------------------------------------- specification: building the spec
\* The specs a tenant may write and an admin may enforce, field by field.
BuildTenantSpecs ==
  { [ZeroSpec EXCEPT !.ttl = t, !.includedNamespaces = ns, !.storageLocation = sl,
                     !.excludedResources = er, !.includedNamespaceScopedResources = nsr,
                     !.includedClusterScopedResources = csr,
                     !.excludedNamespaceScopedResources = ensr] :
      t \in {0, 1}, ns \in {<<>>, <<NabNamespace>>, <<OtherNamespace>>},
      sl \in {EmptyString, "bsl"}, er \in {<<>>, <<"pods">>},
      nsr \in {<<>>, <<"pods">>}, csr \in {<<>>, <<"nodes">>},
      ensr \in {<<>>, <<"events">>} }

BuildEnforcedSpecs ==
  { [ZeroSpec EXCEPT !.ttl = t, !.includedNamespaces = ns, !.storageLocation = sl,
                     !.excludedResources = er, !.includedNamespaceScopedResources = nsr] :
      t \in {0, 3}, ns \in {<<>>, <<OtherNamespace>>},
      sl \in {EmptyString, "bsl"}, er \in {<<>>, <<"secrets">>},
      nsr \in {<<>>, <<"secrets">>} }

\* A new tenant object of any of these specs under any of these enforced
\* specs, on a cluster where nobody else writes.
InitBuild ==
  /\ \E spec \in BuildTenantSpecs : nabObj = NewNab(spec, NoLabel)
  /\ enforced \in BuildEnforcedSpecs
  /\ nab = NoNab
  /\ fresh = FALSE
  /\ backups = <<>>
  /\ requests = {}
  /\ restores = 0
  /\ children = [pvb |-> <<>>, du |-> <<>>]
  /\ path = "none"
  /\ pc = 0
  /\ result = "none"
  /\ calls = <<>>
  /\ budget = 0

\* The passes of the create/update path.
NextBuild ==
  \/ ReconcileStart
  \/ initNabCreate
  \/ validateSpec
  \/ setBackupUUIDInStatus
  \/ setFinalizerOnNonAdminBackup
  \/ createVeleroBackupAndSyncWithNonAdminBackup

SpecBuild == InitBuild /\ [][NextBuild]_vars

\* ----------------------------- specification: a bound tenant object
\* The engine Backup a completed create/update pass leaves for a tenant
\* object with an empty spec, and the tenant object it leaves.
BoundBackup ==
  LET n == [NewNab(ZeroSpec, NoLabel) EXCEPT !.status.veleroBackup.nacUUID = GeneratedUUID]
  IN  BuildVeleroBackup(n, ExcludeResources(ResolveStorageLocation(
                             ConfineNamespaces(EnforceSpec(n.backupSpec, EnforcedSpec), n))))

BoundNab ==
  [NewNab(ZeroSpec, NoLabel) EXCEPT
     !.finalizer = TRUE,
     !.status.phase = PhaseCreated,
     !.status.conditions.Accepted = Condition("True", "BackupAccepted", "backup accepted"),
     !.status.conditions.Queued = Condition("True", "BackupScheduled", "Created Velero Backup object"),
     !.status.veleroBackup = [nacUUID |-> GeneratedUUID, namespace |-> OADPNamespace,
                              name |-> GeneratedUUID, spec |-> BoundBackup.spec,
                              status |-> EmptyString],
     !.status.queueInfo = 1]

\* What others may have left under the same UUID label: a second Backup,
\* and DeleteBackupRequests.
DuplicateBackup ==
  VeleroBackup("x1", GeneratedUUID, GetNonAdminLabels,
               [NoAnnotations EXCEPT !.originNamespace = NabNamespace], ZeroSpec, FALSE)

StrayRequests ==
  { DeleteBackupRequest("ext-" \o x, "ext", GeneratedUUID, FALSE) : x \in {"-r1", "-r2"} }

\* A bound tenant object, marked by the tenant in any way, with any of
\* these objects beside its engine Backup; one more write may follow.
InitBound ==
  /\ \E d \in BOOLEAN, t \in BOOLEAN :
       nabObj = [BoundNab EXCEPT !.deleteBackup = d, !.deletionTimestamp = t]
  /\ backups \in {<<BoundBackup>>, <<BoundBackup, DuplicateBackup>>}
  /\ requests \in SUBSET StrayRequests
  /\ nab = NoNab
  /\ fresh = FALSE
  /\ enforced = EnforcedSpec
  /\ restores = 0
  /\ children = [pvb |-> <<>>, du |-> <<>>]
  /\ path = "none"
  /\ pc = 0
  /\ result = "none"
  /\ calls = <<>>
  /\ budget = MaxFollowUpWrites

SpecBound == InitBound /\ [][Next]_vars

\* --------------------------- specification: passes that keep running
\* A new tenant object; the tenant writes once more (sets deleteBackup or
\* deletes the object), the engine does its work, nobody else writes.
InitLive ==
  /\ \E spec \in {ZeroSpec, [ZeroSpec EXCEPT !.ttl = 1, !.storageLocation = "bsl"]},
        label \in {NoLabel, EmptyString} :
       nabObj = NewNab(spec, label)
  /\ nab = NoNab
  /\ fresh = FALSE
  /\ enforced = EnforcedSpec
  /\ backups = <<>>
  /\ requests = {}
  /\ restores = 0
  /\ children = [pvb |-> <<>>, du |-> <<>>]
  /\ path = "none"
  /\ pc = 0
  /\ result = "none"
  /\ calls = <<>>
  /\ budget = MaxFollowUpWrites

NextLive ==
  \/ Reconcile
  \/ TenantSetsDeleteBackup
  \/ TenantDeletes
  \/ EngineRunsBackup
  \/ EngineProcessesRequest

\* A step that does not end in a retryable error: no API call of it failed.
Succeeds(step) == step /\ result' /= "error"

\* The work queue runs a pass for an object that exists, a pass runs to
\* its end, and a failed pass is retried; no API call fails forever; the
\* engine works off its Backups and DeleteBackupRequests.
Fairness ==
  /\ WF_vars(Reconcile)
  /\ SF_vars(Succeeds(setStatusAndConditionForDeletionAndCallDelete))
  /\ SF_vars(Succeeds(deleteNonAdminRestores))
  /\ SF_vars(Succeeds(createVeleroDeleteBackupRequest))
  /\ SF_vars(Succeeds(setStatusForDirectKubernetesAPIDeletion))
  /\ SF_vars(Succeeds(deleteDeleteBackupRequestObjects))
  /\ SF_vars(Succeeds(deleteVeleroBackupObjects))
  /\ SF_vars(Succeeds(initNabCreate))
  /\ SF_vars(Succeeds(validateSpec))
  /\ SF_vars(Succeeds(setBackupUUIDInStatus))
  /\ SF_vars(Succeeds(setFinalizerOnNonAdminBackup))
  /\ SF_vars(Succeeds(createVeleroBackupAndSyncWithNonAdminBackup))
  /\ WF_vars(EngineRunsBackup)
  /\ WF_vars(EngineProcessesRequest)

SpecLive == InitLive /\ [][NextLive]_vars /\ Fairness

\* ------------------- specification: sync labels of the tenant's choice
\* The value of a label is the tenant's to choose: here also the name of
\* the tenant object itself.
ChosenSyncLabels == {NoLabel, NabName, SyncUUID}

TenantChoosesSyncLabel ==
  \E label \in ChosenSyncLabels : TenantWrites([nabObj EXCEPT !.syncLabel = label])

\* A new tenant object with any of these labels; the tenant writes once
\* more, the engine does its work, nobody else writes.
InitLabelled ==
  /\ \E spec \in {ZeroSpec, [ZeroSpec EXCEPT !.ttl = 1, !.storageLocation = "bsl"]},
        label \in ChosenSyncLabels :
       nabObj = NewNab(spec, label)
  /\ nab = NoNab
  /\ fresh = FALSE
  /\ enforced = EnforcedSpec
  /\ backups = <<>>
  /\ requests = {}
  /\ restores = 0
  /\ children = [pvb |-> <<>>, du |-> <<>>]
  /\ path = "none"
  /\ pc = 0
  /\ result = "none"
  /\ calls = <<>>
  /\ budget = MaxFollowUpWrites

NextLabelled ==
  \/ Reconcile
  \/ TenantChoosesSyncLabel
  \/ TenantSetsDeleteBackup
  \/ TenantDeletes
  \/ EngineRunsBackup
  \/ EngineProcessesRequest

SpecLabelled == InitLabelled /\ [][NextLabelled]_vars

\* ------------------------------ specification: tallying listed items
\* The phases the switches of lines 928-939 and 980-999 count, and two they
\* do not.
PodVolumeBackupPhases == {"New", "InProgress", "Failed", "Completed"}
DataUploadPhases ==
  {"New", "Accepted", "Prepared", "InProgress", "Canceling", "Canceled", "Failed", "Completed"}
UnrecognizedPhases == {EmptyString, "Unknown"}

\* The lists a List call may return for one Backup.
ListsOf(phases) ==
  UNION { [1..n -> { [backupName |-> GetValidName(SyncUUID), phase |-> p] : p \in phases }] :
            n \in 0..MaxListedItems }

\* The counters an earlier call may have left in the status.
RECURSIVE SumOver(_, _)
SumOver(c, fields) ==
  IF fields = {} THEN 0
  ELSE LET f == CHOOSE f \in fields : TRUE IN c[f] + SumOver(c, fields \ {f})

StoredCounters(zero) ==
  { c \in [DOMAIN zero -> 0..MaxListedItems] :
      SumOver(c, DOMAIN zero \ {"total"}) <= c.total }

\* updateNonAdminBackupPodVolumeBackupStatus called on the status of the
\* copy with the listed PodVolumeBackups; result holds what it returned.
TallyPodVolumeBackups ==
  LET r == updateNonAdminBackupPodVolumeBackupStatus(nab.status, children.pvb)
  IN  /\ nab' = [nab EXCEPT !.status = r.status]
      /\ result' = IF r.updated THEN "true" ELSE "false"
      /\ calls' = <<"updateNonAdminBackupPodVolumeBackupStatus">>
      /\ UNCHANGED <<nabObj, fresh, enforced, engineVars, path, pc, budget>>

\* updateNonAdminBackupDataUploadStatus called likewise.
TallyDataUploads ==
  LET r == updateNonAdminBackupDataUploadStatus(nab.status, children.du)
  IN  /\ nab' = [nab EXCEPT !.status = r.status]
      /\ result' = IF r.updated THEN "true" ELSE "false"
      /\ calls' = <<"updateNonAdminBackupDataUploadStatus">>
      /\ UNCHANGED <<nabObj, fresh, enforced, engineVars, path, pc, budget>>

\* The engine changes the items of one kind, while there are none of the
\* other kind and none were counted.
EngineChangesChildren ==
  /\ \/ /\ children.du = <<>> /\ nab.status.dataMoverDataUploads = ZeroUploadCounters
        /\ \E items \in ListsOf(PodVolumeBackupPhases \cup UnrecognizedPhases) :
             children' = [children EXCEPT !.pvb = items]
     \/ /\ children.pvb = <<>> /\ nab.status.fileSystemPodVolumeBackups = ZeroCounters
        /\ \E items \in ListsOf(DataUploadPhases \cup UnrecognizedPhases) :
             children' = [children EXCEPT !.du = items]
  /\ UNCHANGED <<nabObj, nab, fresh, enforced, backups, requests, restores, passVars, budget>>

\* A status with counters of one kind and a list of that kind.
InitTally ==
  /\ nabObj = NewNab(ZeroSpec, NoLabel)
  /\ \/ \E stored \in StoredCounters(ZeroCounters),
           items \in ListsOf(PodVolumeBackupPhases \cup UnrecognizedPhases) :
          /\ nab = [nabObj EXCEPT !.status.fileSystemPodVolumeBackups = stored]
          /\ children = [pvb |-> items, du |-> <<>>]
     \/ \E stored \in StoredCounters(ZeroUploadCounters),
           items \in ListsOf(DataUploadPhases \cup UnrecognizedPhases) :
          /\ nab = [nabObj EXCEPT !.status.dataMoverDataUploads = stored]
          /\ children = [pvb |-> <<>>, du |-> items]
  /\ fresh = TRUE
  /\ enforced = EnforcedSpec
  /\ backups = <<>>
  /\ requests = {}
  /\ restores = 0
  /\ path = "none"
  /\ pc = 0
  /\ result = "none"
  /\ calls = <<>>
  /\ budget = 0

NextTally == TallyPodVolumeBackups \/ TallyDataUploads \/ EngineChangesChildren

SpecTally == InitTally /\ [][NextTally]_vars

\* ====================================================== the properties
\* The step a controller transition executes, and what it looks up.
CurrentStep == IF pc > 0 THEN reconcileSteps(path)[pc] ELSE "none"
ControllerStep == pc > 0 /\ pc' /= pc
BackupsLabelled(bk, uuid) == SelectSeq(bk, LAMBDA b : b.nacUUID = uuid)
ControllerBackups == { i \in DOMAIN backups : backups[i].byController }
CreatesBackup == \E i \in DOMAIN backups' : backups'[i].byController /\ backups'[i].name \notin BackupNames

\* C1: the finalizer leaves the stored tenant object only in a step whose
\* lookup by the UUID label found no engine Backup (and no ambiguity).
C1_FinalizerRemovedOnlyWhenBackupAbsent ==
  [][ (nabObj.finalizer /\ ~nabObj'.finalizer)
        => /\ ControllerStep
           /\ Len(BackupsLabelled(backups, nab.status.veleroBackup.nacUUID)) = 0 ]_vars

\* A direct-delete pass has removed the finalizer and the object is gone.
C1_Witness ==
  /\ ~nabObj.exists
  /\ pc = 0 /\ result = "done" /\ path = "direct"
  /\ calls /= <<>> /\ calls[Len(calls)] = "Update"

\* C2: the controller creates an engine Backup only while the stored tenant
\* object carries the finalizer.
C2_FinalizerBeforeCreate ==
  [][ CreatesBackup => (nabObj.exists /\ nabObj.finalizer /\ nab.finalizer /\ nabObj'.finalizer) ]_vars

\* A controller-created Backup exists for a tenant object with the finalizer.
C2_Witness == ControllerBackups /= {} /\ nabObj.exists /\ nabObj.finalizer

\* C3: every engine Backup the controller created includes exactly the
\* tenant's namespace.
C3_IncludedNamespacesConfined ==
  \A i \in ControllerBackups : backups[i].spec.includedNamespaces = <<NabNamespace>>

\* A Backup was created for a tenant spec that names no namespace while the
\* enforced spec names another tenant's.
C3_Witness ==
  /\ ControllerBackups /= {}
  /\ nabObj.exists /\ nabObj.backupSpec.includedNamespaces = <<>>
  /\ enforced.includedNamespaces = <<OtherNamespace>>

SpecPhaseTransitions ==
  { <<EmptyString, PhaseNew>>, <<PhaseNew, PhaseBackingOff>>, <<PhaseNew, PhaseCreated>>,
    <<PhaseCreated, PhaseDeleting>>, <<PhaseBackingOff, PhaseDeleting>> }

C5_PhaseFollowsSpecDag ==
  [][ (nabObj'.exists /\ nabObj.status.phase /= EmptyString
       /\ nabObj'.status.phase /= nabObj.status.phase)
        => <<nabObj.status.phase, nabObj'.status.phase>> \in SpecPhaseTransitions ]_vars

\* C5 as amended: the stored phase never returns to unset and becomes New
\* only from unset; it moves along the spec's transitions and along the
\* further ones the code performs.
CodePhaseTransitions ==
  SpecPhaseTransitions \cup
  { <<PhaseCreated, PhaseBackingOff>>, <<PhaseBackingOff, PhaseCreated>>,
    <<EmptyString, PhaseCreated>>, <<EmptyString, PhaseBackingOff>>,
    <<EmptyString, PhaseDeleting>>, <<PhaseNew, PhaseDeleting>>,
    <<PhaseDeleting, PhaseCreated>>, <<PhaseDeleting, PhaseBackingOff>> }

C5_PhaseFollowsCodeTransitions ==
  [][ (nabObj'.exists /\ nabObj'.status.phase /= nabObj.status.phase)
        => <<nabObj.status.phase, nabObj'.status.phase>> \in CodePhaseTransitions ]_vars

\* The phase went back from Created to BackingOff: condition Queued is still
\* True.
C5_Witness ==
  /\ nabObj.exists /\ nabObj.status.phase = PhaseBackingOff
  /\ IsStatusConditionTrue(nabObj.status.conditions, "Queued")

\* The stored status is what a projection of the engine objects yields, for
\* a tenant object on the create/update path that is accepted and bound:
\* nothing is left for a pass to change.
Synced ==
  /\ nabObj.exists /\ SelectPath(nabObj) = "create"
  /\ ValidateBackupSpec(nabObj, enforced) = ""
  /\ nabObj.finalizer
  /\ nabObj.status.phase = PhaseCreated
  /\ nabObj.status.conditions.Accepted = Condition("True", "BackupAccepted", "backup accepted")
  /\ nabObj.status.conditions.Queued = Condition("True", "BackupScheduled", "Created Velero Backup object")
  /\ LET found == BackupsLabelled(backups, nabObj.status.veleroBackup.nacUUID)
     IN  /\ Len(found) = 1
         /\ found[1].originNamespace = nabObj.namespace
         /\ nabObj.status.veleroBackup.spec = found[1].spec
         /\ nabObj.status.veleroBackup.status = found[1].phase
         /\ nabObj.status.queueInfo = GetBackupQueueInfo(backups, found[1])
         /\ updateNonAdminBackupPodVolumeBackupStatus(nabObj.status,
              ListChildren(children.pvb, found[1])).updated = FALSE
         /\ updateNonAdminBackupDataUploadStatus(nabObj.status,
              ListChildren(children.du, found[1])).updated = FALSE

\* C6: a create/update pass over a tenant object and engine objects that
\* are unchanged since the last completed pass makes no write call.
C6_NoWriteWhenUnchanged ==
  [][ (ControllerStep /\ path = "create" /\ Synced /\ nab = nabObj /\ fresh) => calls' = calls ]_vars

\* C7: a pass takes its path from the object it read at its start, by the
\* precedence deleteBackup, deletionTimestamp, valid sync label; the path
\* stays for the whole pass and only its steps' calls are made.
PathCalls(p) ==
  CASE p = "delete" -> {"StatusUpdate", "DeleteNAB", "DeleteNAR", "CreateDBR", "Update"}
    [] p = "direct" -> {"StatusUpdate", "DeleteDBR", "DeleteBackup", "Update"}
    [] p \in {"sync", "create"} -> {"StatusUpdate", "Update", "CreateBackup"}
    [] OTHER -> {}

C7_PathByPrecedence ==
  /\ [][ /\ (pc = 0 /\ pc' > 0) =>
              /\ nab' = nabObj
              /\ nabObj.deleteBackup => path' = "delete"
              /\ (~nabObj.deleteBackup /\ nabObj.deletionTimestamp) => path' = "direct"
              /\ (~nabObj.deleteBackup /\ ~nabObj.deletionTimestamp
                    /\ CheckLabelAnnotationValueIsValid(nabObj.syncLabel)) => path' = "sync"
              /\ (~nabObj.deleteBackup /\ ~nabObj.deletionTimestamp
                    /\ ~CheckLabelAnnotationValueIsValid(nabObj.syncLabel)) => path' = "create"
         /\ pc > 0 => path' = path ]_vars
  /\ [](\A i \in DOMAIN calls : calls[i] \in PathCalls(path))

\* A graceful-delete pass runs on an object that is also marked for deletion
\* and carries a sync label.
C7_Witness ==
  /\ pc > 1 /\ path = "delete"
  /\ nab.deleteBackup /\ nab.deletionTimestamp /\ CheckLabelAnnotationValueIsValid(nab.syncLabel)

\* C8: once condition Queued is True, a create/update pass that finds no
\* engine Backup under the UUID creates none and does not complete.
C8_NoRecreationAfterCreated ==
  [][ (ControllerStep /\ path = "create"
       /\ CurrentStep = "createVeleroBackupAndSyncWithNonAdminBackup"
       /\ IsStatusConditionTrue(nab.status.conditions, "Queued")
       /\ Len(BackupsLabelled(backups, nab.status.veleroBackup.nacUUID)) = 0)
        => (~CreatesBackup /\ result' \in {"terminal", "error"}) ]_vars

\* C9: a direct-delete pass creates no DeleteBackupRequest, leaves none
\* under the tenant's UUID once its request step has passed, and calls
\* Delete on the request before Delete on the engine Backup.
C9_DirectDeleteRemovesRequestFirst ==
  /\ [][ (ControllerStep /\ path = "direct") =>
           /\ requests' \subseteq requests
           /\ (CurrentStep = "deleteDeleteBackupRequestObjects" /\ pc' = pc + 1)
                => \A r \in requests' : r.nacUUID /= nab.status.veleroBackup.nacUUID
                                          \/ nab.status.veleroBackup.nacUUID = EmptyString ]_vars
  /\ [](path = "direct" =>
          /\ \A i \in DOMAIN calls : calls[i] /= "CreateDBR"
          /\ \A i, j \in DOMAIN calls : (calls[i] = "DeleteDBR" /\ calls[j] = "DeleteBackup") => i < j)

\* A direct-delete pass has deleted a request and then the engine Backup.
C9_Witness ==
  /\ path = "direct"
  /\ \E i, j \in DOMAIN calls : calls[i] = "DeleteDBR" /\ calls[j] = "DeleteBackup"
  /\ result \in {"done", "running"}

\* C10: when the one engine Backup under the UUID does not carry the
\* tenant's namespace as its origin, the create step ends the pass with a
\* terminal error and writes nothing.
C10_ForeignBackupIsTerminal ==
  [][ (ControllerStep /\ path \in {"create", "sync"}
       /\ CurrentStep = "createVeleroBackupAndSyncWithNonAdminBackup"
       /\ LET found == BackupsLabelled(backups, nab.status.veleroBackup.nacUUID)
          IN  Len(found) = 1 /\ found[1].originNamespace /= nab.namespace)
        => /\ result' = "terminal"
           /\ nabObj' = nabObj
           /\ calls' = calls
           /\ backups' = backups ]_vars

\* A sync pass ended terminally in front of a Backup of another namespace,
\* and nothing was projected.
C10_Witness ==
  /\ pc = 0 /\ result = "terminal" /\ path = "sync"
  /\ nabObj.exists /\ nabObj.status.phase = EmptyString
  /\ nabObj.status.conditions.Queued = NoCondition
  /\ LET found == BackupsLabelled(backups, nabObj.status.veleroBackup.nacUUID)
     IN  Len(found) = 1 /\ found[1].originNamespace /= nabObj.namespace

\* C11: a create/update pass whose validation fails stops at that step with
\* nothing but the status touched: no UUID, no finalizer, no engine Backup.
\* It ends terminally with phase BackingOff and Accepted=False
\* (InvalidBackupSpec) stored on the object, if that still exists; only a
\* failed status Update makes it end with that call's error instead,
\* nothing stored.
C11_InvalidSpecIsTerminal ==
  [][ (ControllerStep /\ path = "create" /\ CurrentStep = "validateSpec"
       /\ ValidateBackupSpec(nab, enforced) /= "")
        => /\ pc' = 0
           /\ result' \in {"terminal", "error"}
           /\ (result' = "terminal" /\ nabObj'.exists) =>
                /\ nabObj'.status.phase = PhaseBackingOff
                /\ nabObj'.status.conditions.Accepted.status = "False"
                /\ nabObj'.status.conditions.Accepted.reason = "InvalidBackupSpec"
           /\ result' = "error" => (calls' = calls \o <<"StatusUpdate">> /\ nabObj' = nabObj)
           /\ nabObj'.status.veleroBackup = nabObj.status.veleroBackup
           /\ nabObj'.finalizer = nabObj.finalizer
           /\ backups' = backups ]_vars

\* A first pass rejected the spec: nothing but the rejection is stored.
C11_Witness ==
  /\ pc = 0 /\ result = "terminal" /\ path = "create"
  /\ nabObj.exists /\ nabObj.status.phase = PhaseBackingOff
  /\ nabObj.status.conditions.Accepted.reason = "InvalidBackupSpec"
  /\ nabObj.status.veleroBackup.nacUUID = EmptyString
  /\ ~nabObj.finalizer
  /\ backups = <<>>

\* C12: a sync-import pass creates no engine Backup; its last step adopts
\* the one Backup of the tenant's namespace under the UUID (phase Created)
\* and does not complete when there is none.
C12_SyncNeverCreates ==
  [][ (ControllerStep /\ path = "sync") =>
        /\ ~CreatesBackup
        /\ (CurrentStep = "createVeleroBackupAndSyncWithNonAdminBackup"
            /\ Len(BackupsLabelled(backups, nab.status.veleroBackup.nacUUID)) = 0)
             => result' \in {"terminal", "error"}
        /\ (CurrentStep = "createVeleroBackupAndSyncWithNonAdminBackup" /\ result' = "done")
             => nabObj'.status.phase = PhaseCreated ]_vars

\* The fields lines 686-718 write again after the merge.
RewrittenFields ==
  {"includedNamespaces", "storageLocation", "excludedResources",
   "excludedNamespaceScopedResources", "excludedClusterScopedResources"}

\* The Backup a creating step adds.
CreatedBackup == backups'[Len(backups')]

C14_CreatedSpecIsMerge ==
  [][ CreatesBackup => CreatedBackup.spec = EnforceSpec(nab.backupSpec, enforced) ]_vars

\* C14 as amended: the spec of a created engine Backup is the merge with the
\* included namespaces set to the tenant's namespace, the storage location
\* replaced by the engine location behind it, and the always-excluded
\* resources appended to the scoped exclusion lists when any scoped filter
\* is set, to the unified list otherwise.
C14_CreatedSpecIsMergeThenConfined ==
  [][ CreatesBackup =>
        LET merged == [ f \in SpecFields |->
                          IF enforced[f] /= ZeroSpec[f] /\ nab.backupSpec[f] = ZeroSpec[f]
                            THEN enforced[f] ELSE nab.backupSpec[f] ]
            scoped == \/ merged.includedClusterScopedResources /= <<>>
                      \/ merged.excludedClusterScopedResources /= <<>>
                      \/ merged.includedNamespaceScopedResources /= <<>>
                      \/ merged.excludedNamespaceScopedResources /= <<>>
            created == CreatedBackup.spec
        IN  /\ created.includedNamespaces = <<nab.namespace>>
            /\ created.ttl = merged.ttl
            /\ created.includedClusterScopedResources = merged.includedClusterScopedResources
            /\ created.includedNamespaceScopedResources = merged.includedNamespaceScopedResources
            /\ created.storageLocation =
                 IF merged.storageLocation = EmptyString THEN EmptyString
                 ELSE NonAdminBsls[merged.storageLocation]
            /\ created.excludedResources =
                 IF scoped THEN merged.excludedResources
                 ELSE merged.excludedResources \o alwaysExcludedNamespacedResources
                        \o alwaysExcludedClusterResources
            /\ created.excludedNamespaceScopedResources =
                 IF scoped THEN merged.excludedNamespaceScopedResources \o alwaysExcludedNamespacedResources
                 ELSE merged.excludedNamespaceScopedResources
            /\ created.excludedClusterScopedResources =
                 IF scoped THEN merged.excludedClusterScopedResources \o alwaysExcludedClusterResources
                 ELSE merged.excludedClusterScopedResources ]_vars

\* An engine Backup built from an enforced storage location, with scoped
\* filters of the tenant: the location is the engine's, the exclusions are
\* in the scoped lists.
C14_Witness ==
  /\ nabObj.exists /\ nabObj.backupSpec.storageLocation = EmptyString /\ enforced.storageLocation = "bsl"
  /\ nabObj.backupSpec.includedClusterScopedResources = <<"nodes">>
  /\ nabObj.backupSpec.excludedResources = <<"pods">>
  /\ \E i \in ControllerBackups :
       /\ backups[i].spec.storageLocation = "velero-bsl"
       /\ backups[i].spec.excludedResources = <<"pods">>
       /\ backups[i].spec.excludedClusterScopedResources = alwaysExcludedClusterResources

\* The lookup the current step makes finds several objects under the UUID.
AmbiguousLookup ==
  LET uuid == nab.status.veleroBackup.nacUUID
      nBackups == Len(BackupsLabelled(backups, uuid))
      nRequests == Cardinality({ r \in requests : r.nacUUID = uuid })
  IN  /\ uuid /= EmptyString
      /\ \/ /\ CurrentStep \in {"createVeleroBackupAndSyncWithNonAdminBackup", "deleteVeleroBackupObjects"}
            /\ nBackups > 1
         \/ /\ CurrentStep = "createVeleroDeleteBackupRequest"
            /\ nab.finalizer
            /\ nBackups > 1 \/ (nBackups = 1 /\ nRequests > 1)
         \/ /\ CurrentStep = "deleteDeleteBackupRequestObjects"
            /\ nRequests > 1

EngineWriteCalls == {"CreateBackup", "CreateDBR", "DeleteBackup", "DeleteDBR"}

\* C15: a pass whose lookup finds several objects under the UUID ends with
\* a retryable error and has made no create or delete call on an engine
\* object.
C15_AmbiguousPassWritesNothing ==
  [][ (ControllerStep /\ AmbiguousLookup)
        => /\ result' = "error"
           /\ \A i \in DOMAIN calls' : calls'[i] \notin EngineWriteCalls ]_vars

\* C15 as amended: the step whose lookup finds several objects under the
\* UUID ends the pass with a retryable error and changes nothing: no
\* engine object, not the tenant object, no call.
C15_AmbiguousStepChangesNothing ==
  [][ (ControllerStep /\ AmbiguousLookup)
        => /\ result' = "error" /\ pc' = 0
           /\ backups' = backups
           /\ requests' = requests
           /\ nabObj' = nabObj
           /\ calls' = calls ]_vars

\* A direct-delete pass deleted the one request and then failed on two
\* Backups, which are still there, as is the finalizer.
C15_Witness ==
  /\ pc = 0 /\ result = "error" /\ path = "direct"
  /\ calls /= <<>> /\ calls[Len(calls)] = "DeleteDBR"
  /\ nabObj.exists /\ nabObj.finalizer
  /\ Len(BackupsLabelled(backups, nabObj.status.veleroBackup.nacUUID)) = 2

\* C16: a UUID stored in the status of the tenant object stays what it is
\* as long as the object exists, whatever the tenant does to the sync label;
\* and the assign-UUID step stores one only where none is.
C16_UUIDNeverChanges ==
  [][ /\ (nabObj.exists /\ nabObj'.exists /\ nabObj.status.veleroBackup.nacUUID /= EmptyString)
          => nabObj'.status.veleroBackup.nacUUID = nabObj.status.veleroBackup.nacUUID
      /\ (ControllerStep /\ CurrentStep = "setBackupUUIDInStatus"
          /\ nabObj.status.veleroBackup.nacUUID /= EmptyString)
          => (calls' = calls /\ nabObj' = nabObj) ]_vars

\* A sync-import pass went past the assign-UUID step of an object that
\* holds a generated UUID and now carries another one as its sync label.
C16_Witness ==
  /\ path = "sync" /\ pc > 1
  /\ nabObj.exists /\ nabObj.syncLabel = SyncUUID
  /\ nabObj.status.veleroBackup.nacUUID = GeneratedUUID

\* C17: a tenant object with deleteBackup set and the finalizer on it
\* eventually is gone.
C17_GracefulDeleteCompletes ==
  (nabObj.exists /\ nabObj.deleteBackup /\ nabObj.finalizer) ~> ~nabObj.exists

\* C18: a tenant object marked for deletion, with the finalizer on it and
\* deleteBackup not set, eventually is gone, whatever its status UUID is.
C18_DirectDeleteCompletes ==
  (nabObj.exists /\ nabObj.deletionTimestamp /\ ~nabObj.deleteBackup /\ nabObj.finalizer)
    ~> ~nabObj.exists

\* The tenant object is bound: an engine Backup named by its UUID exists,
\* and the stored status has phase Created, condition Queued True
\* (BackupScheduled) and the Backup's spec and status.
BoundAndMirrored ==
  /\ nabObj.exists
  /\ nabObj.status.veleroBackup.nacUUID /= EmptyString
  /\ nabObj.status.phase = PhaseCreated
  /\ nabObj.status.conditions.Queued.status = "True"
  /\ nabObj.status.conditions.Queued.reason = "BackupScheduled"
  /\ \E i \in DOMAIN backups :
       /\ backups[i].name = nabObj.status.veleroBackup.nacUUID
       /\ backups[i].namespace = OADPNamespace
       /\ nabObj.status.veleroBackup.spec = backups[i].spec
       /\ nabObj.status.veleroBackup.status = backups[i].phase

\* C19: a new tenant object with a valid spec and no sync label eventually
\* is bound and mirrors its engine Backup, unless the tenant sets
\* deleteBackup or deletes it.
C19_NewObjectReachesCreated ==
  (/\ nabObj.exists /\ nabObj.status = ZeroStatus /\ nabObj.syncLabel = NoLabel
   /\ ~nabObj.deleteBackup /\ ~nabObj.deletionTimestamp
   /\ ValidateBackupSpec(nabObj, enforced) = "")
    ~> (BoundAndMirrored \/ ~nabObj.exists \/ nabObj.deleteBackup \/ nabObj.deletionTimestamp)

\* The engine has finished the Backup and the tenant object, untouched by
\* the tenant, shows it.
C19_Witness ==
  /\ BoundAndMirrored
  /\ nabObj.syncLabel = NoLabel /\ ~nabObj.deleteBackup /\ ~nabObj.deletionTimestamp
  /\ nabObj.status.veleroBackup.status = "Completed"

\* C20: the stored finalizer changes only by a controller's Update; it is
\* added by the add-finalizer step where it is missing and stays until the
\* Update that removes it, with which the object is gone: one adding write
\* and one removing write in the life of an object.
C20_FinalizerAddedOnceRemovedOnce ==
  [][ /\ nabObj'.finalizer /= nabObj.finalizer
          => /\ ControllerStep
             /\ calls' = calls \o <<"Update">>
             /\ CurrentStep \in {"setFinalizerOnNonAdminBackup", "createVeleroDeleteBackupRequest",
                                 "deleteVeleroBackupObjects"}
             /\ nabObj'.finalizer <=> CurrentStep = "setFinalizerOnNonAdminBackup"
      /\ (nabObj.finalizer /\ ~nabObj'.finalizer) => ~nabObj'.exists
      /\ (ControllerStep /\ Len(calls') > Len(calls) /\ calls'[Len(calls')] = "Update"
          /\ result' /= "error")
          => nabObj'.finalizer /= nabObj.finalizer ]_vars

\* A graceful delete has ended: the engine removed the Backup on the
\* controller's request and the pass that saw it gone removed the finalizer.
C20_Witness ==
  /\ ~nabObj.exists /\ pc = 0 /\ result = "done" /\ path = "delete"
  /\ calls = <<"Update">>
  /\ backups = <<>>
  /\ \E r \in requests : r.byController /\ r.phase = "Processed"

\* C21: the assign-UUID step that succeeds on a tenant object without a
\* UUID stores the value of the sync label if that is non-empty, else a
\* generated UUID; the stored UUID is non-empty, the stored name is the
\* UUID and the stored namespace is the operator namespace.
C21_AssignedUUIDIsLabelOrGenerated ==
  [][ (ControllerStep /\ CurrentStep = "setBackupUUIDInStatus" /\ result' /= "error"
       /\ nabObj.exists /\ nabObj.status.veleroBackup.nacUUID = EmptyString)
        => /\ nabObj'.status.veleroBackup.nacUUID =
                IF CheckLabelAnnotationValueIsValid(nabObj.syncLabel) THEN nabObj.syncLabel
                ELSE GenerateNacObjectUUID(nabObj.namespace, nabObj.name)
           /\ nabObj'.status.veleroBackup.nacUUID /= EmptyString
           /\ nabObj'.status.veleroBackup.name = nabObj'.status.veleroBackup.nacUUID
           /\ nabObj'.status.veleroBackup.namespace = OADPNamespace ]_vars

\* C22 as the spec states it: a Backup the controller creates is in the
\* operator namespace, named by the tenant's status UUID, labelled with that
\* UUID and the non-admin marker, annotated with namespace, name and UID of
\* the tenant object, and never has the tenant object's name.
C22_CreatedBackupIdentity ==
  [][ CreatesBackup =>
        /\ CreatedBackup.namespace = OADPNamespace
        /\ CreatedBackup.name = nab.status.veleroBackup.nacUUID
        /\ CreatedBackup.name = nabObj.status.veleroBackup.nacUUID
        /\ CreatedBackup.nacUUID = CreatedBackup.name
        /\ CreatedBackup.managed
        /\ CreatedBackup.originNamespace = nab.namespace
        /\ CreatedBackup.originName = nab.name
        /\ CreatedBackup.originUID = NabUID
        /\ CreatedBackup.name /= nab.name ]_vars

\* C22 as amended: the same, but the name is the tenant's status UUID and
\* nothing else: it differs from the tenant object's name when the UUID was
\* generated, and is whatever the tenant wrote when the UUID was taken from
\* the sync label.
C22_CreatedBackupNamedByUUID ==
  [][ CreatesBackup =>
        /\ CreatedBackup.namespace = OADPNamespace
        /\ CreatedBackup.name = nab.status.veleroBackup.nacUUID
        /\ CreatedBackup.name = nabObj.status.veleroBackup.nacUUID
        /\ CreatedBackup.name /= EmptyString
        /\ CreatedBackup.nacUUID = CreatedBackup.name
        /\ CreatedBackup.managed
        /\ CreatedBackup.originNamespace = nab.namespace
        /\ CreatedBackup.originName = nab.name
        /\ CreatedBackup.originUID = NabUID
        /\ CreatedBackup.name = GenerateNacObjectUUID(nab.namespace, nab.name)
             => CreatedBackup.name /= nab.name
        /\ CreatedBackup.name /= GenerateNacObjectUUID(nab.namespace, nab.name)
             => CreatedBackup.name \in ChosenSyncLabels ]_vars

\* The controller created a Backup under a UUID that was taken from a sync
\* label the tenant has since removed.
C22_Witness ==
  /\ nabObj.exists /\ nabObj.syncLabel = NoLabel
  /\ nabObj.status.veleroBackup.nacUUID = SyncUUID
  /\ \E i \in ControllerBackups :
       /\ backups[i].name = SyncUUID /\ backups[i].nacUUID = SyncUUID
       /\ backups[i].originName = nabObj.name

\* C23: a pass starts at the first step of its path and runs the steps in
\* their order; a step that returns an error (retryable or terminal),
\* asks for a requeue or panics ends the pass with that result, and only a
\* pass whose last step returned without any of these is complete.  The Delete call on the
\* tenant object, after which the first graceful-delete step asks for a
\* requeue, is therefore the last call of its pass.
C23_StepsInOrderUntilFirstStop ==
  /\ [][ /\ (pc = 0 /\ pc' /= 0) => (pc' = 1 /\ result' = "running" /\ calls' = <<>>)
         /\ ControllerStep =>
              /\ path' = path
              /\ pc' \in {0, pc + 1}
              /\ pc' = pc + 1 <=> result' = "running"
              /\ pc' = 0 => result' \in {"done", "requeue", "error", "terminal", "panic"}
              /\ result' = "done" => pc = Len(reconcileSteps(path))
              /\ pc' = pc + 1 => reconcileSteps(path)[pc'] /= reconcileSteps(path)[pc]
              /\ \E k \in 0..Len(calls') : SubSeq(calls', 1, k) = calls ]_vars
  /\ [](\A i \in DOMAIN calls : calls[i] = "DeleteNAB" => i = Len(calls))
  /\ [](pc > 0 => (result = "running" /\ pc <= Len(reconcileSteps(path))))

\* A graceful-delete pass ended with a requeue after its first step, with a
\* restore left that its second step would have deleted.
C23_Witness ==
  /\ pc = 0 /\ result = "requeue" /\ path = "delete"
  /\ calls /= <<>> /\ calls[Len(calls)] = "DeleteNAB"
  /\ restores > 0

\* The stored tenant object, if there is one, shows the pending deletion.
DeletingPersisted ==
  nabObj.exists =>
    /\ nabObj.status.phase = PhaseDeleting
    /\ nabObj.status.conditions.Deleting.status = "True"
    /\ nabObj.status.conditions.Deleting.reason = "DeletionPending"

\* C24: the first graceful-delete step on an object read without a
\* deletionTimestamp stores phase Deleting and condition Deleting first (if
\* the object read does not show them already), then calls Delete on the
\* object and ends the pass with a requeue, touching no restore and no
\* request.  Restores are deleted and a delete-backup-request is created
\* only by the later steps of a graceful-delete pass that read the object
\* with the deletionTimestamp, with the Deleting status stored.
C24_DeleteIsCalledBeforeCleanup ==
  [][ /\ (ControllerStep /\ path = "delete" /\ ~nab.deletionTimestamp)
           => /\ CurrentStep = "setStatusAndConditionForDeletionAndCallDelete"
              /\ pc' = 0 /\ result' \in {"requeue", "error"}
              /\ restores' = restores /\ requests' = requests /\ backups' = backups
              /\ calls' \in {<<"StatusUpdate">>, <<"DeleteNAB">>, <<"StatusUpdate", "DeleteNAB">>}
              /\ calls'[Len(calls')] = "DeleteNAB" => DeletingPersisted'
              /\ calls'[1] /= "StatusUpdate" =>
                   (nab.status.phase = PhaseDeleting /\ nab.status.conditions.Deleting.status = "True")
              /\ result' = "requeue" =>
                   /\ calls'[Len(calls')] = "DeleteNAB"
                   /\ nabObj'.exists => (nabObj'.deletionTimestamp /\ DeletingPersisted')
      /\ (restores' < restores \/ (\E r \in requests' : r.byController /\ r.name \notin RequestNames))
           => /\ ControllerStep /\ path = "delete"
              /\ CurrentStep \in {"deleteNonAdminRestores", "createVeleroDeleteBackupRequest"}
              /\ nab.deletionTimestamp
              /\ DeletingPersisted ]_vars

\* A graceful-delete pass on an object marked for deletion has deleted a
\* restore and created the delete-backup-request.
C24_Witness ==
  /\ pc = 0 /\ result = "done" /\ path = "delete"
  /\ \E i, j \in DOMAIN calls : calls[i] = "DeleteNAR" /\ calls[j] = "CreateDBR" /\ i < j
  /\ nabObj.exists /\ nabObj.deletionTimestamp /\ nabObj.status.phase = PhaseDeleting
  /\ \E r \in requests : r.byController

\* C25: the graceful-delete step that creates a delete-backup-request and
\* does not fail leaves the reference to it in the stored status: the
\* request's UUID, the operator namespace and the generated name.
C25_RequestReferencePersisted ==
  [][ (ControllerStep /\ path = "delete" /\ result' /= "error" /\ nabObj'.exists)
        => \A r \in requests' :
             (r.byController /\ r.name \notin RequestNames)
               => /\ nabObj'.status.veleroDeleteBackupRequest.nacUUID = r.nacUUID
                  /\ nabObj'.status.veleroDeleteBackupRequest.namespace = OADPNamespace
                  /\ nabObj'.status.veleroDeleteBackupRequest.name = r.name ]_vars

\* The members of a list.
Members(list) == { list[i] : i \in DOMAIN list }

\* C26: a created engine Backup excludes every always-excluded resource.
\* If the merged spec sets any scoped filter, the namespaced ones are
\* appended to excludedNamespaceScopedResources and the cluster ones to
\* excludedClusterScopedResources, and excludedResources is the merged one;
\* otherwise all are appended to excludedResources and the scoped exclusion
\* lists are empty.  What the lists held comes first, unchanged.
C26_AlwaysExcludedAppended ==
  [][ CreatesBackup =>
        LET merged == EnforceSpec(nab.backupSpec, enforced)
            created == CreatedBackup.spec
            anyScoped == \E f \in {"includedClusterScopedResources", "excludedClusterScopedResources",
                                   "includedNamespaceScopedResources", "excludedNamespaceScopedResources"} :
                           Len(merged[f]) > 0
            Kept(f) == SubSeq(created[f], 1, Len(merged[f])) = merged[f]
            Added(f) == SubSeq(created[f], Len(merged[f]) + 1, Len(created[f]))
        IN  /\ \A f \in {"excludedResources", "excludedNamespaceScopedResources",
                         "excludedClusterScopedResources"} : Kept(f)
            /\ anyScoped =>
                 /\ Added("excludedNamespaceScopedResources") = alwaysExcludedNamespacedResources
                 /\ Added("excludedClusterScopedResources") = alwaysExcludedClusterResources
                 /\ Added("excludedResources") = <<>>
            /\ ~anyScoped =>
                 /\ Added("excludedResources") =
                      alwaysExcludedNamespacedResources \o alwaysExcludedClusterResources
                 /\ created.excludedNamespaceScopedResources = <<>>
                 /\ created.excludedClusterScopedResources = <<>>
            /\ Members(alwaysExcludedNamespacedResources) \subseteq
                 Members(created.excludedResources) \cup Members(created.excludedNamespaceScopedResources)
            /\ Members(alwaysExcludedClusterResources) \subseteq
                 Members(created.excludedResources) \cup Members(created.excludedClusterScopedResources) ]_vars

\* A Backup created from a spec whose only scoped filter is an exclusion of
\* the tenant: the tenant's entry comes first, the unified list is the
\* tenant's.
C26_Witness ==
  /\ nabObj.exists
  /\ nabObj.backupSpec.excludedNamespaceScopedResources = <<"events">>
  /\ nabObj.backupSpec.includedNamespaceScopedResources = <<>>
  /\ nabObj.backupSpec.includedClusterScopedResources = <<>>
  /\ nabObj.backupSpec.excludedResources = <<"pods">>
  /\ enforced.includedNamespaceScopedResources = <<>>
  /\ \E i \in ControllerBackups :
       /\ backups[i].spec.excludedNamespaceScopedResources = <<"events">> \o alwaysExcludedNamespacedResources
       /\ backups[i].spec.excludedClusterScopedResources = alwaysExcludedClusterResources
       /\ backups[i].spec.excludedResources = <<"pods">>

\* The terminal cause the current step detects, or "" if it detects none.
TerminalCause ==
  LET found == BackupsLabelled(backups, nab.status.veleroBackup.nacUUID)
  IN  IF path = "create" /\ CurrentStep = "validateSpec" /\ ValidateBackupSpec(nab, enforced) /= ""
        THEN "invalid spec"
      ELSE IF path \in {"create", "sync"}
              /\ CurrentStep = "createVeleroBackupAndSyncWithNonAdminBackup"
              /\ nab.status.veleroBackup.nacUUID /= EmptyString
        THEN IF Len(found) > 1 THEN "ambiguous binding"
             ELSE IF Len(found) = 1 /\ found[1].originNamespace /= nab.namespace
               THEN "origin does not match"
             ELSE IF Len(found) = 0 /\ IsStatusConditionTrue(nab.status.conditions, "Queued")
               THEN "vanished after Created"
             ELSE ""
      ELSE ""

\* C27: the step that detects a terminal cause ends the pass with a
\* terminal error, and the tenant object then stores a condition that is
\* False with a reason and a message for the cause; only a failed status
\* Update makes the pass end with that call's error instead.
C27_TerminalCauseIsSurfaced ==
  [][ (ControllerStep /\ TerminalCause /= "")
        => \/ /\ result' = "terminal"
              /\ nabObj'.exists =>
                   /\ nabObj'.status.conditions.Accepted.status = "False"
                   /\ nabObj'.status.conditions.Accepted.reason \in {"InvalidBackupSpec", "VeleroBackupNotFound"}
                        <=> TerminalCause \in {"invalid spec", "vanished after Created"}
                   /\ nabObj'.status.conditions.Accepted.message /= ""
           \/ /\ result' = "error"
              /\ Len(calls') = Len(calls) + 1 /\ calls'[Len(calls')] = "StatusUpdate" ]_vars

\* The projection step of a pass that has a UUID to look for.
ProjectionStep ==
  /\ ControllerStep /\ path \in {"create", "sync"}
  /\ CurrentStep = "createVeleroBackupAndSyncWithNonAdminBackup"

\* C28: a failed queue-position lookup or child list does not fail the
\* projection step.  The step ends in an error without a failed write call
\* only if it has no UUID, finds several Backups or no storage location;
\* and when it completes, the stored status has phase Created, condition
\* Queued True and the spec and status of the engine Backup, the queue
\* position is the one the pass read or the one looked up, and each set of
\* counters is the tally of the list or, the list failing, of no items.
C28_FailedLookupsAreNotFatal ==
  [][ ProjectionStep =>
        LET uuid == nab.status.veleroBackup.nacUUID
            found == BackupsLabelled(backups', uuid)
        IN  /\ (result' = "error" /\ calls' = calls)
                 => \/ uuid = EmptyString
                    \/ Len(BackupsLabelled(backups, uuid)) > 1
                    \/ /\ EnforceSpec(nab.backupSpec, enforced).storageLocation /= EmptyString
                       /\ EnforceSpec(nab.backupSpec, enforced).storageLocation \notin DOMAIN NonAdminBsls
            /\ (result' = "done" /\ nabObj'.exists)
                 => /\ Len(found) = 1
                    /\ nabObj'.status.phase = PhaseCreated
                    /\ nabObj'.status.conditions.Queued =
                         Condition("True", "BackupScheduled", "Created Velero Backup object")
                    /\ nabObj'.status.veleroBackup.spec = found[1].spec
                    /\ nabObj'.status.veleroBackup.status = found[1].phase
                    /\ nabObj'.status.queueInfo \in
                         {nab.status.queueInfo, GetBackupQueueInfo(backups', found[1])}
                    /\ nabObj'.status.fileSystemPodVolumeBackups \in
                         { updateNonAdminBackupPodVolumeBackupStatus(nab.status, items).status.fileSystemPodVolumeBackups :
                             items \in {ListChildren(children.pvb, found[1]), <<>>} }
                    /\ nabObj'.status.dataMoverDataUploads \in
                         { updateNonAdminBackupDataUploadStatus(nab.status, items).status.dataMoverDataUploads :
                             items \in {ListChildren(children.du, found[1]), <<>>} } ]_vars

\* A pass has completed and stored phase Created, condition Queued and the
\* mirror of a Backup the engine has finished, while the queue position is
\* still unset: its lookup failed.
C28_Witness ==
  /\ pc = 0 /\ result = "done" /\ path \in {"create", "sync"}
  /\ nabObj.exists /\ nabObj.status.phase = PhaseCreated
  /\ IsStatusConditionTrue(nabObj.status.conditions, "Queued")
  /\ nabObj.status.veleroBackup.status = "Completed"
  /\ nabObj.status.queueInfo = 0

\* C29: a sync-import pass runs the steps of the create/update path in the
\* same order: each of its steps is the step the create/update path has at
\* that position, and a sync-import pass that completes has validated the
\* spec, so that it stores condition Accepted True for a spec that passes
\* validation.
C29_SyncRunsCreateSteps ==
  [][ (ControllerStep /\ path = "sync") =>
        /\ CurrentStep = reconcileSteps("create")[pc]
        /\ (result' = "done" /\ nabObj'.exists)
             => /\ IsStatusConditionTrue(nabObj'.status.conditions, "Accepted")
                /\ ValidateBackupSpec(nabObj', enforced) = "" ]_vars

\* The items of a list in one phase, counted without the tally functions.
InPhase(items, phase) == Cardinality({ i \in DOMAIN items : items[i].phase = phase })

\* The counters are those of the list: total is its length, each phase counter
\* the number of its items in that phase, and the phase counters sum to at
\* most total.
TalliedFrom(counters, items, phaseOf) ==
  /\ counters.total = Len(items)
  /\ \A f \in DOMAIN phaseOf : counters[f] = InPhase(items, phaseOf[f])
  /\ DOMAIN counters = DOMAIN phaseOf \cup {"total"}
  /\ SumOver(counters, DOMAIN phaseOf) <= counters.total

PodVolumeBackupCounterPhase ==
  [new |-> "New", inProgress |-> "InProgress", failed |-> "Failed", completed |-> "Completed"]
DataUploadCounterPhase ==
  [new |-> "New", accepted |-> "Accepted", prepared |-> "Prepared", inProgress |-> "InProgress",
   canceling |-> "Canceling", canceled |-> "Canceled", failed |-> "Failed",
   completed |-> "Completed"]

\* C30: for every list of PodVolumeBackups, and of DataUploads, the counter
\* update leaves total equal to the number of listed items and each phase
\* counter equal to the number of items in that phase, items of an
\* unrecognized or empty phase counting in total only, and it returns true
\* exactly when a counter differs from the value stored before the call;
\* nothing else of the status changes.
C30_CountersAreTheTally ==
  [][ /\ TallyPodVolumeBackups =>
           /\ TalliedFrom(nab'.status.fileSystemPodVolumeBackups, children.pvb,
                          PodVolumeBackupCounterPhase)
           /\ (result' = "true") <=>
                (nab'.status.fileSystemPodVolumeBackups /= nab.status.fileSystemPodVolumeBackups)
           /\ nab' = [nab EXCEPT !.status.fileSystemPodVolumeBackups =
                                    nab'.status.fileSystemPodVolumeBackups]
      /\ TallyDataUploads =>
           /\ TalliedFrom(nab'.status.dataMoverDataUploads, children.du, DataUploadCounterPhase)
           /\ (result' = "true") <=>
                (nab'.status.dataMoverDataUploads /= nab.status.dataMoverDataUploads)
           /\ nab' = [nab EXCEPT !.status.dataMoverDataUploads =
                                    nab'.status.dataMoverDataUploads] ]_vars

\* The counter update has returned true for a list of two PodVolumeBackups,
\* one completed and one of an unrecognized phase, which it counted in total
\* only.
C30_Witness ==
  /\ calls = <<"updateNonAdminBackupPodVolumeBackupStatus">> /\ result = "true"
  /\ Len(children.pvb) = MaxListedItems
  /\ \E i \in DOMAIN children.pvb : children.pvb[i].phase \in UnrecognizedPhases
  /\ \E i \in DOMAIN children.pvb : children.pvb[i].phase = "Completed"
  /\ nab.status.fileSystemPodVolumeBackups.total = MaxListedItems
  /\ nab.status.fileSystemPodVolumeBackups.completed = 1
  /\ SumOver(nab.status.fileSystemPodVolumeBackups, DOMAIN PodVolumeBackupCounterPhase)
       < nab.status.fileSystemPodVolumeBackups.total

\* The engine Backups of another origin than the tenant object's namespace.
ForeignBackups(bk) ==
  { bk[i].name : i \in { j \in DOMAIN bk : bk[j].originNamespace /= nabObj.namespace } }

\* C31: no step of a pass deletes an engine Backup whose origin-namespace
\* annotation differs from the namespace of the tenant object, and none
\* creates a delete-backup-request that names such a Backup, on any path.
C31_ForeignBackupNeverDeleted ==
  [][ ControllerStep =>
        /\ ForeignBackups(backups) \subseteq ForeignBackups(backups')
        /\ \A r \in requests' :
             (r.byController /\ r.name \notin RequestNames)
               => r.backupName \notin ForeignBackups(backups) ]_vars

\* C32: in a create/update pass the engine Backup is built from the tenant
\* spec the validate step accepted: no step after validation changes the
\* spec of the copy the pass works on, and the spec the copy holds when the
\* Backup is created passes validation.
C32_CreatedFromValidatedSpec ==
  [][ (ControllerStep /\ path = "create") =>
        /\ (pc >= 2 /\ pc' > pc) => nab'.backupSpec = nab.backupSpec
        /\ CreatesBackup => ValidateBackupSpec(nab, enforced) = "" ]_vars

\* C33: whenever the stored tenant object, or the copy a pass works on, is
\* in phase Created, its condition Queued is True; so the step that finds
\* the engine Backup absent for an object in phase Created always has an
\* error to report, and no pass ends by reading the message of a nil error.
C33_CreatedImpliesQueued ==
  /\ (nabObj.exists /\ nabObj.status.phase = PhaseCreated)
       => IsStatusConditionTrue(nabObj.status.conditions, "Queued")
  /\ (pc > 0 /\ nab.status.phase = PhaseCreated)
       => IsStatusConditionTrue(nab.status.conditions, "Queued")
  /\ result /= "panic"

\* A create/update pass found the engine Backup gone for a tenant object
\* without sync label that was in phase Created, and reported it: the pass
\* ended terminally with Accepted False, reason VeleroBackupNotFound.
C33_Witness ==
  /\ pc = 0 /\ result = "terminal" /\ path = "create"
  /\ nabObj.exists /\ ~CheckLabelAnnotationValueIsValid(nabObj.syncLabel)
  /\ nabObj.status.phase = PhaseBackingOff
  /\ IsStatusConditionTrue(nabObj.status.conditions, "Queued")
  /\ nabObj.status.conditions.Accepted =
       Condition("False", "VeleroBackupNotFound",
                 "NonAdminBackup is finalized and its associated Velero Backup has been removed")

\* C34: the stored tenant object loses the finalizer only in a step of a
\* delete path whose pass read the object with its deletionTimestamp set;
\* an object that carries the finalizer and is not being deleted carries it
\* after every step of a pass.
C34_FinalizerRemovedOnlyWhenDeleting ==
  [][ /\ (nabObj.exists /\ nabObj.finalizer /\ ~(nabObj'.exists /\ nabObj'.finalizer))
           => /\ ControllerStep
              /\ path \in {"delete", "direct"}
              /\ nab.deletionTimestamp
              /\ nabObj.deletionTimestamp
      /\ (ControllerStep /\ nabObj.exists /\ nabObj.finalizer /\ ~nabObj.deletionTimestamp)
           => (nabObj'.exists /\ nabObj'.finalizer) ]_vars

\* A graceful-delete pass on an object marked for deletion found no engine
\* Backup and no request under the UUID, and removed the finalizer.
C34_Witness ==
  /\ ~nabObj.exists /\ pc = 0 /\ result = "done" /\ path = "delete"
  /\ calls = <<"Update">>
  /\ requests = {} /\ backups = <<>>

\* The requests this controller created that carry a UUID label.
ControllerRequests(rq, uuid) == { r \in rq : r.byController /\ r.nacUUID = uuid }

\* C35: a step creates a delete-backup-request only as the last step of the
\* graceful-delete path, for a copy that carries the finalizer and a
\* non-empty UUID, while one engine Backup and no request carry that UUID;
\* the request names that Backup and carries the UUID.  A pass that finds
\* both the Backup and its request creates nothing, and no UUID ever has
\* two requests of the controller.
C35_RequestCreatedOnce ==
  [][ /\ ControllerStep =>
           \A r \in requests' :
             (r.byController /\ r.name \notin RequestNames)
               => LET uuid == nab.status.veleroBackup.nacUUID
                      found == BackupsLabelled(backups, uuid)
                  IN  /\ path = "delete"
                      /\ CurrentStep = "createVeleroDeleteBackupRequest"
                      /\ nab.finalizer
                      /\ uuid /= EmptyString
                      /\ Len(found) = 1
                      /\ { q \in requests : q.nacUUID = uuid } = {}
                      /\ r.nacUUID = uuid
                      /\ r.backupName = found[1].name
                      /\ requests' = requests \cup {r}
      /\ \A uuid \in UUIDs \cup {EmptyString} :
           /\ Cardinality(ControllerRequests(requests, uuid)) <= 1
           /\ Cardinality(ControllerRequests(requests', uuid)) <= 1 ]_vars

\* A graceful-delete pass has found the engine Backup and the request the
\* controller created for it earlier, both still there, and has completed
\* without a write call.
C35_Witness ==
  /\ pc = 0 /\ result = "done" /\ path = "delete" /\ calls = <<>>
  /\ nabObj.exists /\ nabObj.finalizer /\ nabObj.deletionTimestamp
  /\ Len(BackupsLabelled(backups, nabObj.status.veleroBackup.nacUUID)) = 1
  /\ \E r \in requests :
       /\ r.byController /\ r.phase = EmptyString
       /\ r.nacUUID = nabObj.status.veleroBackup.nacUUID

\* C36: a projection step whose list of PodVolumeBackups or of DataUploads
\* fails leaves the counters of that kind as they were: after a projection
\* step that completes, each set of stored counters is either the tally of
\* the items that exist for the engine Backup (the list succeeded) or what
\* the tenant status held before the step (the list failed).
C36_FailedListKeepsCounters ==
  [][ (ProjectionStep /\ result' = "done" /\ nabObj'.exists
       /\ Len(BackupsLabelled(backups', nab.status.veleroBackup.nacUUID)) = 1) =>
        LET veleroBackup == BackupsLabelled(backups', nab.status.veleroBackup.nacUUID)[1]
            listedPvb == ListChildren(children.pvb, veleroBackup)
            listedDu == ListChildren(children.du, veleroBackup)
        IN  /\ nabObj'.status.fileSystemPodVolumeBackups \in
                 { nabObj.status.fileSystemPodVolumeBackups, nab.status.fileSystemPodVolumeBackups,
                   updateNonAdminBackupPodVolumeBackupStatus(nab.status, listedPvb)
                     .status.fileSystemPodVolumeBackups }
            /\ nabObj'.status.dataMoverDataUploads \in
                 { nabObj.status.dataMoverDataUploads, nab.status.dataMoverDataUploads,
                   updateNonAdminBackupDataUploadStatus(nab.status, listedDu)
                     .status.dataMoverDataUploads } ]_vars

====
